---- MODULE Spec2Model ----
(***************************************************************************)
(* A model of ggez's conf module (src/conf.rs) and 3d mesh module          *)
(* (src/graphics/mesh3d.rs).                                               *)
(*                                                                         *)
(* The module holds several state machines, one per part of the program:   *)
(*   SpecConf   Conf built with the builder setters, written with          *)
(*              to_toml_file and read back with from_toml_file             *)
(*   SpecAabb   a mesh's vertex list and Mesh3d::to_aabb                   *)
(*   SpecObj    the obj importer, FromRawVertex::process                   *)
(*   SpecPath   Model::from_path's dispatch on the extension               *)
(*   SpecUri    DataUri::parse and DataUri::decode                         *)
(*   SpecGltf   Model::from_gltf, buffer by buffer, primitive by primitive *)
(*   SpecModel  a Model whose public fields are edited, and Model::to_aabb   *)
(*   SpecInst   Instance3d::from_param on a draw parameter                   *)
(*   SpecMesh   Mesh3dBuilder::from_data and build, Mesh3d::gen_bind_group   *)
(* Each specification moves its own variables and leaves the others at     *)
(* their initial values.                                                   *)
(***************************************************************************)
EXTENDS Integers, Sequences, FiniteSets, TLC

VARIABLES
    \* conf.rs
    conf,        \* the Conf value under construction
    confCalls,   \* number of builder setters applied so far
    confFile,    \* what to_toml_file wrote: [written, lines]
    confLoaded,  \* what from_toml_file returned: [state, conf]
    \* mesh3d.rs, Mesh3d::to_aabb
    meshVerts,   \* the positions of the mesh's vertices
    aabbOut,     \* what to_aabb returned: [called, ret]
    \* mesh3d.rs, the obj importer
    objPos,      \* the position records read: (x, y, z, w)
    objTex,      \* the texture-coordinate records read: (u, v, w)
    objFaces,    \* the polygons read
    objOut,      \* what process returned: [run, ret]
    \* mesh3d.rs, Model::from_path
    pathIn,      \* the path handed to from_path, a sequence of bytes
    pathOut,     \* what from_path did: [called, importer, opened, ret]
    \* mesh3d.rs, DataUri
    uriIn,       \* the string handed to DataUri::parse: [chosen, text]
    uriParsed,   \* what parse returned: [called, ret]
    uriDecoded,  \* what decode returned: [called, ret]
    \* mesh3d.rs, Model::from_gltf
    gltfPc,         \* where from_gltf is: start, buffers, meshes, done
    gltfBlob,       \* gltf.blob, the binary chunk of a glb file if any
    gltfBufferData, \* the local buffer_data
    gltfMeshes,     \* the local meshes
    gltfLast,       \* the buffer or primitive the last step read
    gltfRet,        \* what from_gltf returned: [kind, msg, model]
    \* mesh3d.rs, a Model and Model::to_aabb
    model,          \* the Model: [center, transform, meshes]
    modelAabb,      \* what Model::to_aabb returned: [called, ret]
    \* mesh3d.rs, Instance3d::from_param
    instParam,      \* the DrawParam3d: [transform, pivot, color]
    instCenter,     \* the center handed to from_param, the world offset
    instOut,        \* what from_param returned: [called, val]
    \* mesh3d.rs, Mesh3dBuilder and Mesh3d::gen_bind_group
    meshBuilder,    \* the Mesh3dBuilder: [vertices, indices, texture]
    meshBuilt,      \* the Mesh3d the last build returned, if any
    meshGpu         \* the number of objects created on the device so far

confVars == <<conf, confCalls, confFile, confLoaded>>
aabbVars == <<meshVerts, aabbOut>>
objVars == <<objPos, objTex, objFaces, objOut>>
pathVars == <<pathIn, pathOut>>
uriVars == <<uriIn, uriParsed, uriDecoded>>
gltfVars == <<gltfPc, gltfBlob, gltfBufferData, gltfMeshes, gltfLast, gltfRet>>
modelVars == <<model, modelAabb>>
instVars == <<instParam, instCenter, instOut>>
meshVars == <<meshBuilder, meshBuilt, meshGpu>>

vars == <<confVars, aabbVars, objVars, pathVars, uriVars, gltfVars, modelVars, instVars, meshVars>>

\* what the steps of one part leave alone: the variables of the other parts
ConfOnly ==
    UNCHANGED <<aabbVars, objVars, pathVars, uriVars, gltfVars, modelVars, instVars, meshVars>>
AabbOnly ==
    UNCHANGED <<confVars, objVars, pathVars, uriVars, gltfVars, modelVars, instVars, meshVars>>
ObjOnly ==
    UNCHANGED <<confVars, aabbVars, pathVars, uriVars, gltfVars, modelVars, instVars, meshVars>>
PathOnly ==
    UNCHANGED <<confVars, aabbVars, objVars, uriVars, gltfVars, modelVars, instVars, meshVars>>
UriOnly ==
    UNCHANGED <<confVars, aabbVars, objVars, pathVars, gltfVars, modelVars, instVars, meshVars>>
GltfOnly ==
    UNCHANGED <<confVars, aabbVars, objVars, pathVars, uriVars, modelVars, instVars, meshVars>>
ModelOnly ==
    UNCHANGED <<confVars, aabbVars, objVars, pathVars, uriVars, gltfVars, instVars, meshVars>>
InstOnly ==
    UNCHANGED <<confVars, aabbVars, objVars, pathVars, uriVars, gltfVars, modelVars, meshVars>>
MeshOnly ==
    UNCHANGED <<confVars, aabbVars, objVars, pathVars, uriVars, gltfVars, modelVars, instVars>>

(***************************************************************************)
(* f32.  A float is [k, v]: k = "fin" with the value v, k = "inf" with     *)
(* the sign v (1 or -1), or k = "nan" (v = 0).                             *)
(***************************************************************************)
Fin(n) == [k |-> "fin", v |-> n]
PosInf == [k |-> "inf", v |-> 1]
NegInf == [k |-> "inf", v |-> -1]
NaN == [k |-> "nan", v |-> 0]

IsNaN(a) == a.k = "nan"
IsFin(a) == a.k = "fin"

\* f32's ==: false as soon as one side is NaN
FEq(a, b) == ~IsNaN(a) /\ ~IsNaN(b) /\ a = b

(***************************************************************************)
(* f32 arithmetic.  The model's f32 has MantBits bits of significand and   *)
(* the exponents 0..MaxExp: its finite values are m * 2^e, in units of     *)
(* the smallest subnormal, with 0 <= m < 2^MantBits.  Every operation      *)
(* rounds the exact result to the nearest such value, ties to the even     *)
(* significand, and overflows to an infinity, as IEEE 754 does.            *)
(***************************************************************************)
MantBits == 2
MaxExp == 2

RECURSIVE Pow2(_)
Pow2(n) == IF n = 0 THEN 1 ELSE 2 * Pow2(n - 1)

\* the finite values >= 0
FinVals == {m * Pow2(e) : m \in 0..(Pow2(MantBits) - 1), e \in 0..MaxExp}

\* f32::MAX and f32::MIN: the largest and the most negative finite values
FMaxVal == (Pow2(MantBits) - 1) * Pow2(MaxExp)
F32MAX == Fin(FMaxVal)
F32MIN == Fin(-FMaxVal)

Abs(n) == IF n < 0 THEN -n ELSE n
SetMax(S) == CHOOSE x \in S : \A y \in S : y <= x
SetMin(S) == CHOOSE x \in S : \A y \in S : x <= y

\* the value h/2 (h >= 0 counts halves of the unit) rounded to nearest, ties
\* to even; -1 stands for an overflow
RoundHalves(h) ==
    IF h >= 2 * FMaxVal + Pow2(MaxExp) THEN -1
    ELSE IF h >= 2 * FMaxVal THEN FMaxVal
    ELSE LET lo == SetMax({v \in FinVals : 2 * v <= h})
             hi == SetMin({v \in FinVals : 2 * v >= h})
         IN  IF lo = hi THEN lo
             ELSE IF h - 2 * lo < 2 * hi - h THEN lo
             ELSE IF h - 2 * lo > 2 * hi - h THEN hi
             ELSE IF (lo \div (hi - lo)) % 2 = 0 THEN lo ELSE hi

\* the f32 nearest to n/2 (n any integer)
FRound(n) ==
    LET r == RoundHalves(Abs(n))
    IN  IF r = -1 THEN (IF n < 0 THEN NegInf ELSE PosInf)
        ELSE Fin(IF n < 0 THEN -r ELSE r)

FNeg(a) == IF IsNaN(a) THEN a ELSE [a EXCEPT !.v = -a.v]

\* a + b
FAdd(a, b) ==
    CASE IsNaN(a) \/ IsNaN(b) -> NaN
      [] IsFin(a) /\ IsFin(b) -> FRound(2 * (a.v + b.v))
      [] IsFin(a) -> b
      [] IsFin(b) -> a
      [] OTHER -> IF a.v = b.v THEN a ELSE NaN

\* a - b
FSub(a, b) == FAdd(a, FNeg(b))

\* 0.5 * a
FHalf(a) == IF IsFin(a) THEN FRound(a.v) ELSE a

\* a < b and a <= b
FLt(a, b) ==
    /\ ~IsNaN(a) /\ ~IsNaN(b)
    /\ CASE IsFin(a) /\ IsFin(b) -> a.v < b.v
         [] IsFin(a) -> b.v = 1
         [] IsFin(b) -> a.v = -1
         [] OTHER -> a.v < b.v
FLe(a, b) == FLt(a, b) \/ FEq(a, b)

\* f32::min and f32::max: a NaN operand is ignored
FMin(a, b) == IF IsNaN(a) THEN b ELSE IF IsNaN(b) THEN a ELSE IF FLt(b, a) THEN b ELSE a
FMax(a, b) == IF IsNaN(a) THEN b ELSE IF IsNaN(b) THEN a ELSE IF FLt(a, b) THEN b ELSE a

(***************************************************************************)
(* glam::Vec3, as a triple of f32                                          *)
(***************************************************************************)
Axes == 1..3
Vec3(x, y, z) == <<x, y, z>>
Vec3MAX == Vec3(F32MAX, F32MAX, F32MAX)
Vec3MIN == Vec3(F32MIN, F32MIN, F32MIN)
Vec3ZERO == Vec3(Fin(0), Fin(0), Fin(0))
Vec3Min(a, b) == [i \in Axes |-> FMin(a[i], b[i])]
Vec3Max(a, b) == [i \in Axes |-> FMax(a[i], b[i])]
Vec3Add(a, b) == [i \in Axes |-> FAdd(a[i], b[i])]
Vec3Sub(a, b) == [i \in Axes |-> FSub(a[i], b[i])]
Vec3Half(a) == [i \in Axes |-> FHalf(a[i])]

(***************************************************************************)
(* Aabb and Mesh3d::to_aabb                                                *)
(***************************************************************************)
Aabb(c, h) == [center |-> c, half_extents |-> h]

\* Aabb::default
AabbDefault == Aabb(Vec3ZERO, Vec3ZERO)

\* from_min_max with the sum and the difference exchanged
FromMinMaxSwapped(minimum, maximum) ==
    Aabb(Vec3Half(Vec3Sub(maximum, minimum)), Vec3Half(Vec3Add(maximum, minimum)))

\* Aabb::from_min_max
FromMinMax(minimum, maximum) ==
    Aabb(Vec3Half(Vec3Add(maximum, minimum)), Vec3Half(Vec3Sub(maximum, minimum)))

Some(x) == [some |-> TRUE, val |-> x]
None == [some |-> FALSE, val |-> AabbDefault]

\* the loop of to_aabb over the positions ps[1..n]: <<minimum, maximum>>
RECURSIVE MinMaxFold(_, _)
MinMaxFold(ps, n) ==
    IF n = 0 THEN <<Vec3MAX, Vec3MIN>>
    ELSE LET acc == MinMaxFold(ps, n - 1)
         IN  <<Vec3Min(acc[1], ps[n]), Vec3Max(acc[2], ps[n])>>

\* the test that decides between Some and None
BoundsFound(minimum, maximum) ==
    /\ \A i \in Axes : ~FEq(minimum[i], F32MAX)
    /\ \A i \in Axes : ~FEq(maximum[i], F32MIN)

\* Mesh3d::to_aabb on a mesh whose vertices have the positions ps
MeshToAabb(ps) ==
    LET mm == MinMaxFold(ps, Len(ps))
    IN  IF BoundsFound(mm[1], mm[2]) THEN Some(FromMinMax(mm[1], mm[2])) ELSE None

(***************************************************************************)
(* Strings.  A str, a path or a byte vector is a sequence of bytes (0..255);*)
(* Str gives the bytes of a literal written character by character.        *)
(***************************************************************************)
\* the printable ASCII characters, from the space (byte 32) on; the grave
\* accent (byte 96) is not written as a character in literals
Ascii ==
    <<" ", "!", "\"", "#", "$", "%", "&", "'", "(", ")", "*", "+",
      ",", "-", ".", "/", "0", "1", "2", "3", "4", "5", "6", "7",
      "8", "9", ":", ";", "<", "=", ">", "?", "@", "A", "B", "C",
      "D", "E", "F", "G", "H", "I", "J", "K", "L", "M", "N", "O",
      "P", "Q", "R", "S", "T", "U", "V", "W", "X", "Y", "Z", "[",
      "\\", "]", "^", "_", "(grave)", "a", "b", "c", "d", "e", "f", "g",
      "h", "i", "j", "k", "l", "m", "n", "o", "p", "q", "r", "s",
      "t", "u", "v", "w", "x", "y", "z", "{", "|", "}", "~">>

CodeOf(c) == 31 + (CHOOSE i \in 1..Len(Ascii) : Ascii[i] = c)
Str(cs) == [i \in 1..Len(cs) |-> CodeOf(cs[i])]

StartsWith(s, p) == Len(s) >= Len(p) /\ SubSeq(s, 1, Len(p)) = p
EndsWith(s, p) == Len(s) >= Len(p) /\ SubSeq(s, Len(s) - Len(p) + 1, Len(s)) = p
Contains(s, b) == \E i \in 1..Len(s) : s[i] = b
\* the first and the last place of byte b in s (s holds b)
FirstIndex(s, b) == SetMin({i \in 1..Len(s) : s[i] = b})
LastIndex(s, b) == SetMax({i \in 1..Len(s) : s[i] = b})
Drop(s, n) == SubSeq(s, n + 1, Len(s))
Take(s, n) == SubSeq(s, 1, n)

NoStr == [some |-> FALSE, val |-> <<>>]
SomeStr(s) == [some |-> TRUE, val |-> s]

(***************************************************************************)
(* conf.rs: the configuration structure                                    *)
(***************************************************************************)
FullscreenType == {"Windowed", "True", "Desktop"}
NumSamples == {"One", "Four"}
Backend == {"Primary", "Secondary", "Vulkan", "Metal", "Dx12", "Dx11", "Gl",
            "BrowserWebGpu"}

WindowModeDefault ==
    [width |-> Fin(800), height |-> Fin(600), maximized |-> FALSE,
     fullscreen_type |-> "Windowed", borderless |-> FALSE,
     min_width |-> Fin(0), min_height |-> Fin(0),
     max_width |-> Fin(0), max_height |-> Fin(0),
     resizable |-> FALSE, visible |-> TRUE,
     resize_on_scale_factor_change |-> FALSE]

WindowSetupDefault ==
    [title |-> "An easy, good game", samples |-> "One", vsync |-> TRUE,
     icon |-> "", srgb |-> TRUE]

BackendDefault == "Primary"

ConfDefault ==
    [window_mode |-> WindowModeDefault, window_setup |-> WindowSetupDefault,
     backend |-> BackendDefault]

\* Conf::new
ConfNew == ConfDefault

\* #[derive(PartialEq)]: field by field, the f32 fields with f32's ==
WindowModeEq(a, b) ==
    /\ FEq(a.width, b.width) /\ FEq(a.height, b.height)
    /\ a.maximized = b.maximized
    /\ a.fullscreen_type = b.fullscreen_type
    /\ a.borderless = b.borderless
    /\ FEq(a.min_width, b.min_width) /\ FEq(a.min_height, b.min_height)
    /\ FEq(a.max_width, b.max_width) /\ FEq(a.max_height, b.max_height)
    /\ a.resizable = b.resizable
    /\ a.visible = b.visible
    /\ a.resize_on_scale_factor_change = b.resize_on_scale_factor_change

ConfEq(a, b) ==
    /\ WindowModeEq(a.window_mode, b.window_mode)
    /\ a.window_setup = b.window_setup
    /\ a.backend = b.backend

(***************************************************************************)
(* The TOML document.  A document is a sequence of lines                   *)
(* [table, key, val]; a value is the token the writer emits:               *)
(*   [t |-> "float", s |-> "" | "inf" | "nan", d |-> digits of the text]   *)
(*   [t |-> "bool",  s |-> "true" | "false",   d |-> <<>>]                 *)
(*   [t |-> "str",   s |-> the string,         d |-> <<>>]                 *)
(*   [t |-> "int",   s |-> "",                 d |-> digits]               *)
(* A finite float is written as its decimal digits followed by ".0" (the   *)
(* model's floats are whole numbers), so d holds the digits and the two    *)
(* characters of the fraction.                                             *)
(***************************************************************************)
DigitChars == <<"0", "1", "2", "3", "4", "5", "6", "7", "8", "9">>

RECURSIVE Digits(_)
Digits(n) ==
    IF n < 10 THEN <<DigitChars[n + 1]>>
    ELSE Append(Digits(n \div 10), DigitChars[(n % 10) + 1])

DigitValue(c) == (CHOOSE i \in 1..10 : DigitChars[i] = c) - 1
IsDigit(c) == \E i \in 1..10 : DigitChars[i] = c

RECURSIVE ParseDigits(_)
ParseDigits(d) ==
    IF Len(d) = 0 THEN 0
    ELSE 10 * ParseDigits(SubSeq(d, 1, Len(d) - 1)) + DigitValue(d[Len(d)])

FloatToken(f) ==
    CASE IsNaN(f) -> [t |-> "float", s |-> "nan", d |-> <<>>]
      [] f.k = "inf" ->
             [t |-> "float", s |-> IF f.v = 1 THEN "inf" ELSE "-inf", d |-> <<>>]
      [] OTHER -> [t |-> "float", s |-> "", d |-> Digits(f.v) \o <<".", "0">>]

BoolToken(b) == [t |-> "bool", s |-> IF b THEN "true" ELSE "false", d |-> <<>>]
StrToken(x) == [t |-> "str", s |-> x, d |-> <<>>]
IntToken(n) == [t |-> "int", s |-> "", d |-> Digits(n)]

\* a unit variant of an enum is serialized as the variant's name
VariantToken(v) == StrToken(v)

\* impl From<NumSamples> for u8
NumSamplesToU8(ns) == IF ns = "One" THEN 1 ELSE 4

NumSamplesAsU8Token(ns) == IntToken(NumSamplesToU8(ns))
\* #[derive(Serialize)] enum NumSamples
NumSamplesToken(ns) == VariantToken(ns)

Line(tb, ky, vl) == [table |-> tb, key |-> ky, val |-> vl]

\* #[derive(Serialize)] struct WindowMode, the fields in declaration order
SerializeWindowMode(wm) ==
    <<Line("window_mode", "width", FloatToken(wm.width)),
      Line("window_mode", "height", FloatToken(wm.height)),
      Line("window_mode", "maximized", BoolToken(wm.maximized)),
      Line("window_mode", "fullscreen_type", VariantToken(wm.fullscreen_type)),
      Line("window_mode", "borderless", BoolToken(wm.borderless)),
      Line("window_mode", "min_width", FloatToken(wm.min_width)),
      Line("window_mode", "min_height", FloatToken(wm.min_height)),
      Line("window_mode", "max_width", FloatToken(wm.max_width)),
      Line("window_mode", "max_height", FloatToken(wm.max_height)),
      Line("window_mode", "resizable", BoolToken(wm.resizable)),
      Line("window_mode", "visible", BoolToken(wm.visible)),
      Line("window_mode", "resize_on_scale_factor_change",
           BoolToken(wm.resize_on_scale_factor_change))>>

\* #[derive(Serialize)] struct WindowSetup
SerializeWindowSetup(ws) ==
    <<Line("window_setup", "title", StrToken(ws.title)),
      Line("window_setup", "samples", NumSamplesToken(ws.samples)),
      Line("window_setup", "vsync", BoolToken(ws.vsync)),
      Line("window_setup", "icon", StrToken(ws.icon)),
      Line("window_setup", "srgb", BoolToken(ws.srgb))>>

\* #[serde(tag = "type")] enum Backend: a table holding the variant's name
SerializeBackend(b) == <<Line("backend", "type", VariantToken(b))>>

\* #[derive(Serialize)] struct Conf
SerializeConf(c) ==
    SerializeWindowMode(c.window_mode) \o SerializeWindowSetup(c.window_setup)
        \o SerializeBackend(c.backend)

(***************************************************************************)
(* Reading.  Every field must be present with a value of its type; a       *)
(* missing field, a value of another type or an unknown variant name is    *)
(* an error.                                                               *)
(***************************************************************************)
HasLine(doc, tb, ky) == \E i \in 1..Len(doc) : doc[i].table = tb /\ doc[i].key = ky
Lookup(doc, tb, ky) ==
    doc[CHOOSE i \in 1..Len(doc) : doc[i].table = tb /\ doc[i].key = ky].val

FloatTextOk(d) ==
    /\ Len(d) >= 3
    /\ d[Len(d) - 1] = "." /\ d[Len(d)] = "0"
    /\ \A i \in 1..(Len(d) - 2) : IsDigit(d[i])

IsFloatTok(tk) ==
    /\ tk.t = "float"
    /\ tk.s \in {"nan", "inf", "-inf"} \/ (tk.s = "" /\ FloatTextOk(tk.d))
ParseFloat(tk) ==
    CASE tk.s = "nan" -> NaN
      [] tk.s = "inf" -> PosInf
      [] tk.s = "-inf" -> NegInf
      [] OTHER -> Fin(ParseDigits(SubSeq(tk.d, 1, Len(tk.d) - 2)))

IsBoolTok(tk) == tk.t = "bool" /\ tk.s \in {"true", "false"}
ParseBool(tk) == tk.s = "true"

IsStrTok(tk) == tk.t = "str"
IsVariantTok(tk, names) == tk.t = "str" /\ tk.s \in names

WindowModeFloatKeys ==
    {"width", "height", "min_width", "min_height", "max_width", "max_height"}
WindowModeBoolKeys ==
    {"maximized", "borderless", "resizable", "visible",
     "resize_on_scale_factor_change"}
WindowSetupBoolKeys == {"vsync", "srgb"}
WindowSetupStrKeys == {"title", "icon"}

\* #[derive(Deserialize)]: whether the document holds a whole Conf
DeserializeOk(doc) ==
    /\ \A ky \in WindowModeFloatKeys :
           HasLine(doc, "window_mode", ky) /\ IsFloatTok(Lookup(doc, "window_mode", ky))
    /\ \A ky \in WindowModeBoolKeys :
           HasLine(doc, "window_mode", ky) /\ IsBoolTok(Lookup(doc, "window_mode", ky))
    /\ HasLine(doc, "window_mode", "fullscreen_type")
    /\ IsVariantTok(Lookup(doc, "window_mode", "fullscreen_type"), FullscreenType)
    /\ \A ky \in WindowSetupStrKeys :
           HasLine(doc, "window_setup", ky) /\ IsStrTok(Lookup(doc, "window_setup", ky))
    /\ \A ky \in WindowSetupBoolKeys :
           HasLine(doc, "window_setup", ky) /\ IsBoolTok(Lookup(doc, "window_setup", ky))
    /\ HasLine(doc, "window_setup", "samples")
    /\ IsVariantTok(Lookup(doc, "window_setup", "samples"), NumSamples)
    /\ HasLine(doc, "backend", "type")
    /\ IsVariantTok(Lookup(doc, "backend", "type"), Backend)

DeserializeConf(doc) ==
    LET wm(ky) == Lookup(doc, "window_mode", ky)
        ws(ky) == Lookup(doc, "window_setup", ky)
    IN  [window_mode |->
             [width |-> ParseFloat(wm("width")),
              height |-> ParseFloat(wm("height")),
              maximized |-> ParseBool(wm("maximized")),
              fullscreen_type |-> wm("fullscreen_type").s,
              borderless |-> ParseBool(wm("borderless")),
              min_width |-> ParseFloat(wm("min_width")),
              min_height |-> ParseFloat(wm("min_height")),
              max_width |-> ParseFloat(wm("max_width")),
              max_height |-> ParseFloat(wm("max_height")),
              resizable |-> ParseBool(wm("resizable")),
              visible |-> ParseBool(wm("visible")),
              resize_on_scale_factor_change |->
                  ParseBool(wm("resize_on_scale_factor_change"))],
         window_setup |->
             [title |-> ws("title").s,
              samples |-> ws("samples").s,
              vsync |-> ParseBool(ws("vsync")),
              icon |-> ws("icon").s,
              srgb |-> ParseBool(ws("srgb"))],
         backend |-> Lookup(doc, "backend", "type").s]

\* Conf::from_toml_file on the bytes of `doc`
FromTomlFile(doc) ==
    IF DeserializeOk(doc)
    THEN [state |-> "ok", conf |-> DeserializeConf(doc)]
    ELSE [state |-> "err", conf |-> ConfDefault]

\* Conf::to_toml_file: the bytes written
ToTomlFile(c) == SerializeConf(c)

(***************************************************************************)
(* SpecConf: a Conf is built from Conf::new with the builder setters,      *)
(* written once, and the written bytes are read back.                      *)
(***************************************************************************)
\* at most this many setter calls on one Conf
MaxSetterCalls == 2

\* the values the setters are called with
ConfFloats == {Fin(0), Fin(1280), PosInf, NaN}
ConfTitles == {"An easy, good game", "ggez 3d"}
ConfIcons == {"", "/icon.png"}

NoFile == [written |-> FALSE, lines |-> <<>>]
NotLoaded == [state |-> "none", conf |-> ConfDefault]

ConfInit ==
    /\ conf = ConfNew
    /\ confCalls = 0
    /\ confFile = NoFile
    /\ confLoaded = NotLoaded

CanSet == ~confFile.written /\ confCalls < MaxSetterCalls

SetWindowMode(wm) ==
    /\ conf' = [conf EXCEPT !.window_mode = wm]
    /\ confCalls' = confCalls + 1
    /\ UNCHANGED <<confFile, confLoaded>>
    /\ ConfOnly

SetWindowSetup(ws) ==
    /\ conf' = [conf EXCEPT !.window_setup = ws]
    /\ confCalls' = confCalls + 1
    /\ UNCHANGED <<confFile, confLoaded>>
    /\ ConfOnly

\* WindowMode::dimensions
Dimensions ==
    /\ CanSet
    /\ \E w \in ConfFloats, h \in {Fin(600), Fin(720)} :
           SetWindowMode([conf.window_mode EXCEPT !.width = w, !.height = h])

\* WindowMode::maximized
Maximized ==
    /\ CanSet
    /\ \E b \in BOOLEAN :
           SetWindowMode([conf.window_mode EXCEPT !.maximized = b])

\* WindowMode::fullscreen_type
SetFullscreenType ==
    /\ CanSet
    /\ \E f \in FullscreenType :
           SetWindowMode([conf.window_mode EXCEPT !.fullscreen_type = f])

\* WindowMode::borderless
Borderless ==
    /\ CanSet
    /\ \E b \in BOOLEAN :
           SetWindowMode([conf.window_mode EXCEPT !.borderless = b])

\* WindowMode::min_dimensions
MinDimensions ==
    /\ CanSet
    /\ \E w \in {Fin(0), Fin(320)}, h \in ConfFloats :
           SetWindowMode([conf.window_mode EXCEPT !.min_width = w, !.min_height = h])

\* WindowMode::max_dimensions
MaxDimensions ==
    /\ CanSet
    /\ \E w \in ConfFloats, h \in {Fin(0), Fin(1080)} :
           SetWindowMode([conf.window_mode EXCEPT !.max_width = w, !.max_height = h])

\* WindowMode::resizable
Resizable ==
    /\ CanSet
    /\ \E b \in BOOLEAN :
           SetWindowMode([conf.window_mode EXCEPT !.resizable = b])

\* WindowMode::visible
Visible ==
    /\ CanSet
    /\ \E b \in BOOLEAN :
           SetWindowMode([conf.window_mode EXCEPT !.visible = b])

\* WindowMode::resize_on_scale_factor_change
ResizeOnScaleFactorChange ==
    /\ CanSet
    /\ \E b \in BOOLEAN :
           SetWindowMode([conf.window_mode EXCEPT
                              !.resize_on_scale_factor_change = b])

\* WindowSetup::title
Title ==
    /\ CanSet
    /\ \E x \in ConfTitles :
           SetWindowSetup([conf.window_setup EXCEPT !.title = x])

\* WindowSetup::samples
Samples ==
    /\ CanSet
    /\ \E ns \in NumSamples :
           SetWindowSetup([conf.window_setup EXCEPT !.samples = ns])

\* WindowSetup::vsync
Vsync ==
    /\ CanSet
    /\ \E b \in BOOLEAN :
           SetWindowSetup([conf.window_setup EXCEPT !.vsync = b])

\* WindowSetup::icon
Icon ==
    /\ CanSet
    /\ \E x \in ConfIcons :
           SetWindowSetup([conf.window_setup EXCEPT !.icon = x])

\* WindowSetup::srgb
Srgb ==
    /\ CanSet
    /\ \E b \in BOOLEAN :
           SetWindowSetup([conf.window_setup EXCEPT !.srgb = b])

\* Conf::backend
SetBackend ==
    /\ CanSet
    /\ \E b \in Backend :
           /\ conf' = [conf EXCEPT !.backend = b]
           /\ confCalls' = confCalls + 1
           /\ UNCHANGED <<confFile, confLoaded>>
           /\ ConfOnly
    /\ ConfOnly

\* c1.to_toml_file(&mut writer)
WriteToml ==
    /\ ~confFile.written
    /\ confFile' = [written |-> TRUE, lines |-> ToTomlFile(conf)]
    /\ UNCHANGED <<conf, confCalls, confLoaded>>
    /\ ConfOnly

\* Conf::from_toml_file(&mut reader) on the written bytes
ReadToml ==
    /\ confFile.written
    /\ confLoaded.state = "none"
    /\ confLoaded' = FromTomlFile(confFile.lines)
    /\ UNCHANGED <<conf, confCalls, confFile>>
    /\ ConfOnly

ConfNext ==
    \/ Dimensions \/ Maximized \/ SetFullscreenType \/ Borderless
    \/ MinDimensions \/ MaxDimensions \/ Resizable \/ Visible
    \/ ResizeOnScaleFactorChange
    \/ Title \/ Samples \/ Vsync \/ Icon \/ Srgb
    \/ SetBackend
    \/ WriteToml \/ ReadToml

(***************************************************************************)
(* SpecAabb: a mesh's vertex list is filled vertex by vertex (the field    *)
(* is public) and to_aabb is called on it.                                 *)
(***************************************************************************)
\* at most this many vertices in the mesh
MaxVerts == 3

\* the coordinates the vertices are drawn from, per axis
CoordsX == {Fin(0), Fin(2), Fin(3), F32MAX}
CoordsY == {Fin(0), F32MAX}
CoordsZ == {F32MIN, Fin(0)}

NotCalled == [called |-> FALSE, ret |-> None]

AabbInit ==
    /\ meshVerts = <<>>
    /\ aabbOut = NotCalled

\* mesh.vertices.push(Vertex3d { pos, .. })
PushVertex ==
    /\ ~aabbOut.called
    /\ Len(meshVerts) < MaxVerts
    /\ \E x \in CoordsX, y \in CoordsY, z \in CoordsZ :
           meshVerts' = Append(meshVerts, Vec3(x, y, z))
    /\ UNCHANGED aabbOut
    /\ AabbOnly

\* mesh.to_aabb()
CallToAabb ==
    /\ ~aabbOut.called
    /\ aabbOut' = [called |-> TRUE, ret |-> MeshToAabb(meshVerts)]
    /\ UNCHANGED meshVerts
    /\ AabbOnly

AabbNext == PushVertex \/ CallToAabb

(***************************************************************************)
(* The obj importer: impl obj::FromRawVertex<I> for Vertex3d               *)
(***************************************************************************)
\* a Vertex3d
Vertex3d(p, uv, c) == [pos |-> p, tex_coord |-> uv, color |-> c]

\* the colour [1.0, 1.0, 1.0, 1.0]
White == <<Fin(1), Fin(1), Fin(1), Fin(1)>>

\* the kinds of obj::raw::object::Polygon and the entries of their lists:
\* P holds <<pi>>, PT <<pi, ti>>, PN <<pi, ni>>, PTN <<pi, ti, ni>>
PolygonKinds == {"P", "PT", "PN", "PTN"}
Polygon(kd, vc) == [kind |-> kd, vec |-> vc]

\* the index type I of the importer has this many bits (u32 in from_obj)
IndexBits == 8

\* I::from_usize(pi): none when pi does not fit I
FromUsize(pi) ==
    IF pi < Pow2(IndexBits) THEN [some |-> TRUE, val |-> pi]
    ELSE [some |-> FALSE, val |-> 0]

ObjOk(vs, is) == [ok |-> TRUE, err |-> "", verts |-> vs, inds |-> is]
ObjErr(e) == [ok |-> FALSE, err |-> e, verts |-> <<>>, inds |-> <<>>]

\* the vertices when the two counts are equal: std::iter::zip(vertices, tex_coords)
ZipVerts(vertices, tex_coords) ==
    [i \in 1..Len(vertices) |->
        Vertex3d(<<vertices[i][1], vertices[i][2], vertices[i][3]>>,
                 <<tex_coords[i][1], tex_coords[i][2]>>, White)]

\* the vertices when the counts differ
PlainVerts(vertices) ==
    [i \in 1..Len(vertices) |->
        Vertex3d(<<vertices[i][1], vertices[i][2], vertices[i][3]>>,
                 <<Fin(0), Fin(0)>>, White)]

\* the vertices with the texture coordinates left out
BuildVertsNoUv(vertices, tex_coords) == PlainVerts(vertices)

BuildVerts(vertices, tex_coords) ==
    IF Len(vertices) = Len(tex_coords) THEN ZipVerts(vertices, tex_coords)
    ELSE PlainVerts(vertices)

\* map pushing the obj file's 1-based index
RECURSIVE MapIndicesOneBased(_, _, _)
MapIndicesOneBased(vec, j, inds) ==
    IF j > Len(vec) THEN [ok |-> TRUE, inds |-> inds]
    ELSE LET c == FromUsize(vec[j][1])
         IN  IF c.some THEN MapIndicesOneBased(vec, j + 1, Append(inds, c.val + 1))
             ELSE [ok |-> FALSE, inds |-> inds]

\* `for &pi in vec { map(pi)? }` from entry j on: the indices pushed, or the
\* error of the first index that does not convert
RECURSIVE MapIndices(_, _, _)
MapIndices(vec, j, inds) ==
    IF j > Len(vec) THEN [ok |-> TRUE, inds |-> inds]
    ELSE LET c == FromUsize(vec[j][1])
         IN  IF c.some THEN MapIndices(vec, j + 1, Append(inds, c.val))
             ELSE [ok |-> FALSE, inds |-> inds]

\* arms that take every polygon of 3 entries or more
IsTriangleOrMore(polygon) == polygon.kind \in PolygonKinds /\ Len(polygon.vec) >= 3

\* the arms of `match polygon`: every kind is taken only with 3 entries
IsTriangle(polygon) == polygon.kind \in PolygonKinds /\ Len(polygon.vec) = 3

\* `for polygon in polygons` from polygon k on
RECURSIVE ProcessPolygons(_, _, _)
ProcessPolygons(polygons, k, inds) ==
    IF k > Len(polygons) THEN [ok |-> TRUE, err |-> "", inds |-> inds]
    ELSE IF IsTriangle(polygons[k])
         THEN LET m == MapIndices(polygons[k].vec, 1, inds)
              IN  IF m.ok THEN ProcessPolygons(polygons, k + 1, m.inds)
                  ELSE [ok |-> FALSE, err |-> "IndexOutOfRange", inds |-> <<>>]
         ELSE [ok |-> FALSE, err |-> "UntriangulatedModel", inds |-> <<>>]

\* FromRawVertex::process
Process(vertices, tex_coords, polygons) ==
    LET verts == BuildVerts(vertices, tex_coords)
        r == ProcessPolygons(polygons, 1, <<>>)
    IN  IF r.ok THEN ObjOk(verts, r.inds) ELSE ObjErr(r.err)

(***************************************************************************)
(* SpecObj: the raw object is read record by record (v, vt and f lines in  *)
(* any order) and handed to process.  The reader of the obj crate resolves *)
(* every index of a face against the records read so far, so a face only   *)
(* holds position indices below the number of positions.                   *)
(***************************************************************************)
MaxPos == 3
MaxTex == 3
MaxFaces == 2
\* a face has 2, 3 or 4 entries
FaceLens == {2, 3, 4}

\* position record i (counted from 0) and texture-coordinate record i
PosRecord(i) == <<Fin(i), Fin(i + 1), Fin(i + 2), Fin(1)>>
TexRecord(i) == <<Fin(10 + i), Fin(20 + i), Fin(0)>>

\* the entry of a face of kind kd for position index pi
FaceEntry(kd, pi) ==
    CASE kd = "P" -> <<pi>>
      [] kd \in {"PT", "PN"} -> <<pi, 0>>
      [] OTHER -> <<pi, 0, 0>>

\* a face of n entries whose position indices run upwards from s, modulo np
Face(kd, n, s, np) == Polygon(kd, [j \in 1..n |-> FaceEntry(kd, (s + j - 1) % np)])

ObjNotRun == [run |-> FALSE, ret |-> ObjErr("")]

ObjInit ==
    /\ objPos = <<>>
    /\ objTex = <<>>
    /\ objFaces = <<>>
    /\ objOut = ObjNotRun

\* a `v` line
ReadPosition ==
    /\ ~objOut.run
    /\ Len(objPos) < MaxPos
    /\ objPos' = Append(objPos, PosRecord(Len(objPos)))
    /\ UNCHANGED <<objTex, objFaces, objOut>>
    /\ ObjOnly

\* a `vt` line
ReadTexCoord ==
    /\ ~objOut.run
    /\ Len(objTex) < MaxTex
    /\ objTex' = Append(objTex, TexRecord(Len(objTex)))
    /\ UNCHANGED <<objPos, objFaces, objOut>>
    /\ ObjOnly

\* an `f` line
ReadFace ==
    /\ ~objOut.run
    /\ Len(objFaces) < MaxFaces
    /\ Len(objPos) >= 1
    /\ \E kd \in PolygonKinds, n \in FaceLens, s \in {0, Len(objPos) - 1} :
           objFaces' = Append(objFaces, Face(kd, n, s, Len(objPos)))
    /\ UNCHANGED <<objPos, objTex, objOut>>
    /\ ObjOnly

\* Vertex3d::process(raw.positions, raw.normals, raw.tex_coords, raw.polygons)
RunProcess ==
    /\ ~objOut.run
    /\ objOut' = [run |-> TRUE, ret |-> Process(objPos, objTex, objFaces)]
    /\ UNCHANGED <<objPos, objTex, objFaces>>
    /\ ObjOnly

ObjNext == ReadPosition \/ ReadTexCoord \/ ReadFace \/ RunProcess

(***************************************************************************)
(* Model::from_path.  A path is a sequence of bytes; its extension is      *)
(* found as std::path::Path::extension finds it on a Unix path.            *)
(***************************************************************************)
Slash == CodeOf("/")
Dot == CodeOf(".")

\* Path::file_name: the last component when it is a normal one; an empty
\* component and a "." component are skipped, a last component ".." gives none
RECURSIVE FileName(_)
FileName(p) ==
    IF p = <<>> THEN NoStr
    ELSE IF p[Len(p)] = Slash THEN FileName(Take(p, Len(p) - 1))
    ELSE LET start == IF Contains(p, Slash) THEN LastIndex(p, Slash) ELSE 0
             seg == Drop(p, start)
         IN  IF seg = <<Dot>> THEN FileName(Take(p, start))
             ELSE IF seg = <<Dot, Dot>> THEN NoStr
             ELSE SomeStr(seg)

\* Path::extension: what follows the last dot of the file name; none when the
\* name has no dot or its only dot is its first byte
PathExtension(p) ==
    LET f == FileName(p)
    IN  IF ~f.some \/ ~Contains(f.val, Dot) THEN NoStr
        ELSE IF LastIndex(f.val, Dot) = 1 THEN NoStr
        ELSE SomeStr(Drop(f.val, LastIndex(f.val, Dot)))

ExtObj == Str(<<"o", "b", "j">>)
ExtGltf == Str(<<"g", "l", "t", "f">>)
ExtGlb == Str(<<"g", "l", "b">>)

\* the result of a model load, as far as from_path is concerned
LoadOk == [ok |-> TRUE, err |-> ""]
LoadErr(e) == [ok |-> FALSE, err |-> e]

\* what a call did: the importer it called, whether ctx.fs.open was called,
\* and what it returned
PathCall(imp, op, r) == [called |-> TRUE, importer |-> imp, opened |-> op, ret |-> r]

\* Model::from_obj as from_path sees it: it opens the file, then loads it;
\* fsOk and loadOk say whether the two succeed
FromObjCall(fsOk, loadOk) ==
    PathCall("obj", TRUE,
             IF ~fsOk THEN LoadErr("fs")
             ELSE IF loadOk THEN LoadOk ELSE LoadErr("obj"))

\* Model::from_gltf as from_path sees it
FromGltfCall(fsOk, loadOk) ==
    PathCall("gltf", TRUE,
             IF ~fsOk THEN LoadErr("fs")
             ELSE IF loadOk THEN LoadOk ELSE LoadErr("Failed to load gltf model"))

\* from_path without the glb extension
FromPathNoGlb(p, fsOk, loadOk) ==
    LET extension == PathExtension(p)
    IN  IF extension.some
        THEN IF extension.val = ExtObj THEN FromObjCall(fsOk, loadOk)
             ELSE IF extension.val = ExtGltf THEN FromGltfCall(fsOk, loadOk)
             ELSE PathCall("none", FALSE, LoadErr("Not a obj or gltf file"))
        ELSE PathCall("none", FALSE, LoadErr("Failed to get extension"))

\* Model::from_path
FromPath(p, fsOk, loadOk) ==
    LET extension == PathExtension(p)
    IN  IF extension.some
        THEN IF extension.val = ExtObj THEN FromObjCall(fsOk, loadOk)
             ELSE IF extension.val = ExtGltf \/ extension.val = ExtGlb
                  THEN FromGltfCall(fsOk, loadOk)
             ELSE PathCall("none", FALSE, LoadErr("Not a obj or gltf file"))
        ELSE PathCall("none", FALSE, LoadErr("Failed to get extension"))

(***************************************************************************)
(* The state machine: a caller builds a path piece by piece and calls      *)
(* from_path on it.                                                        *)
(***************************************************************************)
\* at most this many pieces in a path
MaxPieces == 3

PathPieces ==
    {Str(<<"m">>), Str(<<".">>), Str(<<"/">>), Str(<<"o", "b", "j">>), Str(<<"g", "l", "t", "f">>), Str(<<"g", "l", "b">>), Str(<<"t", "x", "t">>), Str(<<"O", "B", "J">>)}

PathNotCalled == [called |-> FALSE, importer |-> "none", opened |-> FALSE, ret |-> LoadOk]

PathInit ==
    /\ pathIn = [pieces |-> 0, text |-> <<>>]
    /\ pathOut = PathNotCalled

PushPiece ==
    /\ ~pathOut.called
    /\ pathIn.pieces < MaxPieces
    /\ \E piece \in PathPieces :
           pathIn' = [pieces |-> pathIn.pieces + 1, text |-> pathIn.text \o piece]
    /\ UNCHANGED pathOut
    /\ PathOnly

CallFromPath ==
    /\ ~pathOut.called
    /\ \E fsOk \in BOOLEAN, loadOk \in BOOLEAN :
           pathOut' = FromPath(pathIn.text, fsOk, loadOk)
    /\ UNCHANGED pathIn
    /\ PathOnly

PathNext == PushPiece \/ CallFromPath

(***************************************************************************)
(* DataUri: parse and decode                                               *)
(***************************************************************************)
Comma == CodeOf(",")
DataPrefix == Str(<<"d", "a", "t", "a", ":">>)
Base64Suffix == Str(<<";", "b", "a", "s", "e", "6", "4">>)

\* str::strip_prefix and str::strip_suffix
StripPrefix(s, p) == IF StartsWith(s, p) THEN SomeStr(Drop(s, Len(p))) ELSE NoStr
StripSuffix(s, p) == IF EndsWith(s, p) THEN SomeStr(Take(s, Len(s) - Len(p))) ELSE NoStr

NoSplit == [some |-> FALSE, left |-> <<>>, right |-> <<>>]

\* split_once around the last delimiter
SplitOnceLast(input, delimiter) ==
    IF Contains(input, delimiter)
    THEN [some |-> TRUE,
          left |-> Take(input, LastIndex(input, delimiter) - 1),
          right |-> Drop(input, LastIndex(input, delimiter))]
    ELSE NoSplit

\* split_once: the two parts around the first delimiter
SplitOnce(input, delimiter) ==
    IF Contains(input, delimiter)
    THEN [some |-> TRUE,
          left |-> Take(input, FirstIndex(input, delimiter) - 1),
          right |-> Drop(input, FirstIndex(input, delimiter))]
    ELSE NoSplit

DataUri(m, b, d) == [ok |-> TRUE, mime_type |-> m, base64 |-> b, data |-> d]
ParseErr == [ok |-> FALSE, mime_type |-> <<>>, base64 |-> FALSE, data |-> <<>>]

\* DataUri::parse
DataUriParse(uri) ==
    LET u == StripPrefix(uri, DataPrefix)
    IN  IF ~u.some THEN ParseErr
        ELSE LET sp == SplitOnce(u.val, Comma)
             IN  IF ~sp.some THEN ParseErr
                 ELSE LET st == StripSuffix(sp.left, Base64Suffix)
                      IN  IF st.some THEN DataUri(st.val, TRUE, sp.right)
                          ELSE DataUri(sp.left, FALSE, sp.right)

\* the results that carry bytes
BytesOk(b) == [ok |-> TRUE, val |-> b, err |-> ""]
BytesErr(e) == [ok |-> FALSE, val |-> <<>>, err |-> e]

\* the value of a symbol of the standard base64 alphabet, -1 for another byte
Sextet(b) ==
    IF b >= 65 /\ b <= 90 THEN b - 65
    ELSE IF b >= 97 /\ b <= 122 THEN b - 71
    ELSE IF b >= 48 /\ b <= 57 THEN b + 4
    ELSE IF b = 43 THEN 62
    ELSE IF b = 47 THEN 63
    ELSE -1

\* the bytes of the symbols s: three per group of four symbols, two for a
\* last group of three, one for a last group of two
RECURSIVE SextetBytes(_)
SextetBytes(s) ==
    IF Len(s) < 2 THEN <<>>
    ELSE IF Len(s) = 2
    THEN <<(Sextet(s[1]) * 64 + Sextet(s[2])) \div 16>>
    ELSE IF Len(s) = 3
    THEN LET n == Sextet(s[1]) * 4096 + Sextet(s[2]) * 64 + Sextet(s[3])
         IN  <<n \div 1024, (n \div 4) % 256>>
    ELSE LET n == Sextet(s[1]) * 262144 + Sextet(s[2]) * 4096
                  + Sextet(s[3]) * 64 + Sextet(s[4])
         IN  <<n \div 65536, (n \div 256) % 256, n % 256>> \o SextetBytes(Drop(s, 4))

\* the bits of the last symbol that belong to no byte
TrailingBits(s) ==
    IF Len(s) % 4 = 2 THEN Sextet(s[Len(s)]) % 16
    ELSE IF Len(s) % 4 = 3 THEN Sextet(s[Len(s)]) % 4
    ELSE 0

\* STANDARD_NO_PAD.decode: a byte outside the alphabet (the padding sign is
\* one), a lone last symbol and non-zero trailing bits are errors
Base64Decode(s) ==
    IF \E i \in 1..Len(s) : Sextet(s[i]) = -1 THEN BytesErr("InvalidByte")
    ELSE IF Len(s) % 4 = 1 THEN BytesErr("InvalidLength")
    ELSE IF TrailingBits(s) # 0 THEN BytesErr("InvalidLastSymbol")
    ELSE BytesOk(SextetBytes(s))

\* DataUri::decode
DataUriDecode(d) ==
    IF d.base64
    THEN IF Base64Decode(d.data).ok THEN BytesOk(Base64Decode(d.data).val)
         ELSE BytesErr("Failed to decode base64")
    ELSE BytesOk(d.data)

(***************************************************************************)
(* The state machine: a caller picks a string, parses it and decodes the   *)
(* DataUri it got.                                                         *)
(***************************************************************************)
\* the strings are put together from a start, a MIME type, a flag, a
\* separator and a payload
UriStarts == {<<>>, Str(<<"d", "a", "t", "a", ":">>), Str(<<"D", "a", "t", "a", ":">>)}
UriMimes == {<<>>, Str(<<"a", "p", "p", "l", "i", "c", "a", "t", "i", "o", "n", "/", "o", "c", "t", "e", "t", "-", "s", "t", "r", "e", "a", "m">>), Str(<<"t", "e", "x", "t", "/", "p", "l", "a", "i", "n">>)}
UriFlags == {<<>>, Str(<<";", "b", "a", "s", "e", "6", "4">>), Str(<<";", "b", "a", "s", "e", "6", "4", ";", "b", "a", "s", "e", "6", "4">>)}
UriSeparators == {<<>>, Str(<<",">>)}
UriPayloads ==
    {<<>>, Str(<<"Q", "U", "J", "D">>), Str(<<"Q", "Q">>), Str(<<"Q", "R">>), Str(<<"Q">>), Str(<<"Q", "Q", "=", "=">>), Str(<<"A", ",", "B">>), Str(<<"Q", "!", "J", "D">>), Str(<<"Q", "U", "J", "D", "R", "A">>)}

UriNotCalled == [called |-> FALSE, ret |-> ParseErr]
UriNotDecoded == [called |-> FALSE, ret |-> BytesOk(<<>>)]

UriInit ==
    /\ uriIn = [chosen |-> FALSE, text |-> <<>>]
    /\ uriParsed = UriNotCalled
    /\ uriDecoded = UriNotDecoded

ChooseUri ==
    /\ ~uriIn.chosen
    /\ \E s \in UriStarts, m \in UriMimes, f \in UriFlags,
          c \in UriSeparators, p \in UriPayloads :
           uriIn' = [chosen |-> TRUE, text |-> s \o m \o f \o c \o p]
    /\ UNCHANGED <<uriParsed, uriDecoded>>
    /\ UriOnly

ParseUri ==
    /\ uriIn.chosen /\ ~uriParsed.called
    /\ uriParsed' = [called |-> TRUE, ret |-> DataUriParse(uriIn.text)]
    /\ UNCHANGED <<uriIn, uriDecoded>>
    /\ UriOnly

DecodeUri ==
    /\ uriParsed.called /\ uriParsed.ret.ok /\ ~uriDecoded.called
    /\ uriDecoded' = [called |-> TRUE, ret |-> DataUriDecode(uriParsed.ret)]
    /\ UNCHANGED <<uriIn, uriParsed>>
    /\ UriOnly

UriNext == ChooseUri \/ ParseUri \/ DecodeUri

(***************************************************************************)
(* Model::from_gltf                                                        *)
(***************************************************************************)
Percent == CodeOf("%")

\* the value of a hexadecimal digit, -1 for another byte
HexVal(b) ==
    IF b >= 48 /\ b <= 57 THEN b - 48
    ELSE IF b >= 65 /\ b <= 70 THEN b - 55
    ELSE IF b >= 97 /\ b <= 102 THEN b - 87
    ELSE -1

\* percent_decode_str: a percent sign followed by two hexadecimal digits
\* becomes the byte they write, every other byte stays
RECURSIVE PercentDecode(_)
PercentDecode(s) ==
    IF s = <<>> THEN <<>>
    ELSE IF /\ s[1] = Percent /\ Len(s) >= 3
            /\ HexVal(s[2]) >= 0 /\ HexVal(s[3]) >= 0
    THEN <<HexVal(s[2]) * 16 + HexVal(s[3])>> \o PercentDecode(Drop(s, 3))
    ELSE <<s[1]>> \o PercentDecode(Drop(s, 1))

\* whether the bytes are UTF-8, which decode_utf8 tests
IsCont(b) == b >= 128 /\ b <= 191
RECURSIVE IsUtf8(_)
IsUtf8(s) ==
    IF s = <<>> THEN TRUE
    ELSE IF s[1] < 128 THEN IsUtf8(Drop(s, 1))
    ELSE IF s[1] >= 194 /\ s[1] <= 223
    THEN Len(s) >= 2 /\ IsCont(s[2]) /\ IsUtf8(Drop(s, 2))
    ELSE IF s[1] >= 224 /\ s[1] <= 239
    THEN /\ Len(s) >= 3 /\ IsCont(s[2]) /\ IsCont(s[3])
         /\ (s[1] = 224 => s[2] >= 160)
         /\ (s[1] = 237 => s[2] <= 159)
         /\ IsUtf8(Drop(s, 3))
    ELSE IF s[1] >= 240 /\ s[1] <= 244
    THEN /\ Len(s) >= 4 /\ IsCont(s[2]) /\ IsCont(s[3]) /\ IsCont(s[4])
         /\ (s[1] = 240 => s[2] >= 144)
         /\ (s[1] = 244 => s[2] <= 143)
         /\ IsUtf8(Drop(s, 4))
    ELSE FALSE

\* how a step of the load ends: with a value, with an error that from_gltf
\* returns, or with a panic
StepOk(v) == [kind |-> "ok", msg |-> "", val |-> v]
StepErr(m) == [kind |-> "err", msg |-> m, val |-> <<>>]
StepPanic(m) == [kind |-> "panic", msg |-> m, val |-> <<>>]

\* percent_decode_str(uri).decode_utf8().unwrap()
DecodeUriText(uri) ==
    IF IsUtf8(PercentDecode(uri)) THEN StepOk(PercentDecode(uri))
    ELSE StepPanic("called Result::unwrap() on an Err value: Utf8Error")

VALID_MIME_TYPES == {Str(<<"a", "p", "p", "l", "i", "c", "a", "t", "i", "o", "n", "/", "o", "c", "t", "e", "t", "-", "s", "t", "r", "e", "a", "m">>), Str(<<"a", "p", "p", "l", "i", "c", "a", "t", "i", "o", "n", "/", "g", "l", "t", "f", "-", "b", "u", "f", "f", "e", "r">>)}

\* gltf::buffer::Source
SourceUri(u) == [kind |-> "Uri", uri |-> u]
SourceBin == [kind |-> "Bin", uri |-> <<>>]

NoBlob == [some |-> FALSE, val |-> <<>>]
SomeBlob(b) == [some |-> TRUE, val |-> b]

\* the body of the loop over the buffers: the bytes of one buffer
BufferBytes(source, blob) ==
    IF source.kind = "Uri"
    THEN LET uri == DecodeUriText(source.uri)
         IN  IF uri.kind # "ok" THEN uri
             ELSE LET data_uri == DataUriParse(uri.val)
                  IN  IF data_uri.ok /\ data_uri.mime_type \in VALID_MIME_TYPES
                      THEN IF DataUriDecode(data_uri).ok
                           THEN StepOk(DataUriDecode(data_uri).val)
                           ELSE StepErr(DataUriDecode(data_uri).err)
                      ELSE IF data_uri.ok THEN StepErr("Buffer Format Unsupported")
                      ELSE StepErr("Failed to decode")
    ELSE IF blob.some THEN StepOk(blob.val)
    ELSE StepErr("MissingBlob")

\* the images: the white pixel of Image::from_color, the image made of the
\* pixels decoded from some bytes, and the image made of the default
\* DynamicImage when the bytes do not decode
WhiteImage == [kind |-> "white", data |-> <<>>]
DefaultImage == [kind |-> "default", data |-> <<>>]
DecodedImage(bytes) == [kind |-> "decoded", data |-> bytes]

\* load_from_memory_with_format(..).unwrap_or_default() and from_pixels;
\* decodes says whether the image library decodes the bytes
LoadImage(bytes, decodes) ==
    IF decodes THEN DecodedImage(bytes) ELSE DefaultImage

\* gltf::image::Source of the base colour texture, if there is one
NoTexture == [kind |-> "None", buffer |-> 0, offset |-> 0, length |-> 0,
              uri |-> <<>>, decodes |-> FALSE]
TextureView(b, o, l, dec) ==
    [kind |-> "View", buffer |-> b, offset |-> o, length |-> l,
     uri |-> <<>>, decodes |-> dec]
TextureUri(u, dec) ==
    [kind |-> "Uri", buffer |-> 0, offset |-> 0, length |-> 0,
     uri |-> u, decodes |-> dec]

\* the image of a primitive
TextureImage(source, buffer_data) ==
    IF source.kind = "None" THEN StepOk(WhiteImage)
    ELSE IF source.kind = "View"
    THEN LET parent_buffer_data == buffer_data[source.buffer + 1]
         IN  IF source.offset + source.length > Len(parent_buffer_data)
             THEN StepPanic("range end index out of range for slice")
             ELSE StepOk(LoadImage(SubSeq(parent_buffer_data, source.offset + 1,
                                          source.offset + source.length),
                                   source.decodes))
    ELSE LET uri == DecodeUriText(source.uri)
         IN  IF uri.kind # "ok" THEN uri
             ELSE LET data_uri == DataUriParse(uri.val)
                  IN  IF data_uri.ok
                      THEN IF DataUriDecode(data_uri).ok
                           THEN StepOk(LoadImage(DataUriDecode(data_uri).val,
                                                 source.decodes))
                           ELSE StepErr(DataUriDecode(data_uri).err)
                      ELSE StepErr("Failed to decode")

\* what the reader of a primitive may or may not have
NoSeq == [some |-> FALSE, val |-> <<>>]
SomeSeq(s) == [some |-> TRUE, val |-> s]

\* the colour (1.0, 1.0, 1.0, 0.0) of the vertices
GltfColor == <<Fin(1), Fin(1), Fin(1), Fin(0)>>

\* the vertices made of the positions
ReadVertices(positions) ==
    IF positions.some
    THEN [i \in 1..Len(positions.val) |->
             Vertex3d(positions.val[i], <<Fin(0), Fin(0)>>, GltfColor)]
    ELSE <<>>

\* vertices[idx].tex_coord = tex_coord for every texture coordinate
SetTexCoords(vertices, tex_coords) ==
    IF ~tex_coords.some THEN StepOk(vertices)
    ELSE IF Len(tex_coords.val) > Len(vertices)
    THEN StepPanic("index out of bounds")
    ELSE StepOk([i \in 1..Len(vertices) |->
                    IF i <= Len(tex_coords.val)
                    THEN [vertices[i] EXCEPT !.tex_coord = tex_coords.val[i]]
                    ELSE vertices[i]])

ReadIndices(indices) == IF indices.some THEN indices.val ELSE <<>>

\* Mesh3dBuilder::from_data(..).build(ctx)
Mesh3dBuild(vertices, indices, texture) ==
    [vertices |-> vertices, indices |-> indices, texture |-> texture]

Primitive(tex, pos, uv, ind) ==
    [texture |-> tex, positions |-> pos, tex_coords |-> uv, indices |-> ind]

\* the body of the loop over the primitives: the mesh of one primitive
PrimitiveMesh(primitive, buffer_data) ==
    LET image == TextureImage(primitive.texture, buffer_data)
        vertices == SetTexCoords(ReadVertices(primitive.positions),
                                 primitive.tex_coords)
    IN  IF image.kind # "ok" THEN image
        ELSE IF vertices.kind # "ok" THEN vertices
        ELSE StepOk(Mesh3dBuild(vertices.val, ReadIndices(primitive.indices),
                                image.val))

\* Transform3d::default: position, rotation (x, y, z, w), scale
Transform3dDefault ==
    [position |-> Vec3ZERO,
     rotation |-> <<Fin(0), Fin(0), Fin(0), Fin(1)>>,
     scale |-> Vec3(Fin(1), Fin(1), Fin(1))]

NoCenter == [some |-> FALSE, val |-> Vec3ZERO]
SomeCenter(c) == [some |-> TRUE, val |-> c]

Model(c, t, ms) == [center |-> c, transform |-> t, meshes |-> ms]
ModelDefault == Model(NoCenter, Transform3dDefault, <<>>)

\* the positions of the vertices of the meshes, mesh after mesh
RECURSIVE ModelPositions(_)
ModelPositions(meshes) ==
    IF meshes = <<>> THEN <<>>
    ELSE [i \in 1..Len(Head(meshes).vertices) |-> Head(meshes).vertices[i].pos]
         \o ModelPositions(Tail(meshes))

\* Model::to_aabb
ModelToAabb(meshes) ==
    LET ps == ModelPositions(meshes)
        mm == MinMaxFold(ps, Len(ps))
    IN  IF BoundsFound(mm[1], mm[2]) THEN Some(FromMinMax(mm[1], mm[2])) ELSE None

\* Option<Aabb>::unwrap_or_default
UnwrapOrDefault(o) == IF o.some THEN o.val ELSE AabbDefault

\* the Model from_gltf returns
GltfModel(meshes) ==
    Model(SomeCenter(UnwrapOrDefault(ModelToAabb(meshes)).center),
          Transform3dDefault, meshes)

(***************************************************************************)
(* The state machine: from_gltf opens and parses the file, goes through    *)
(* the buffers of the document, then through the primitives of its meshes, *)
(* and returns.  The document is read as the load goes: each step takes    *)
(* the next buffer or primitive from the samples below.                    *)
(***************************************************************************)
\* at most this many buffers and this many primitives in a document
MaxBuffers == 2
MaxPrims == 2

GltfBlobs == {NoBlob, SomeBlob(Str(<<"A", "B", "C">>))}

BufferUris ==
    {Str(<<"d", "a", "t", "a", ":", "a", "p", "p", "l", "i", "c", "a", "t", "i", "o", "n", "/", "o", "c", "t", "e", "t", "-", "s", "t", "r", "e", "a", "m", ";", "b", "a", "s", "e", "6", "4", ",", "Q", "U", "J", "D">>),
     Str(<<"d", "a", "t", "a", ":", "a", "p", "p", "l", "i", "c", "a", "t", "i", "o", "n", "/", "g", "l", "t", "f", "-", "b", "u", "f", "f", "e", "r", ",", "A", "B", "C">>),
     Str(<<"d", "a", "t", "a", "%", "3", "A", "a", "p", "p", "l", "i", "c", "a", "t", "i", "o", "n", "/", "o", "c", "t", "e", "t", "-", "s", "t", "r", "e", "a", "m", ",", "A", "B", "C">>),
     Str(<<"d", "a", "t", "a", ":", "t", "e", "x", "t", "/", "p", "l", "a", "i", "n", ",", "A", "B">>),
     Str(<<"d", "a", "t", "a", ":", ",", "A", "B">>),
     Str(<<"d", "a", "t", "a", ":", "a", "p", "p", "l", "i", "c", "a", "t", "i", "o", "n", "/", "o", "c", "t", "e", "t", "-", "s", "t", "r", "e", "a", "m">>),
     Str(<<"d", "a", "t", "a", ":", "a", "p", "p", "l", "i", "c", "a", "t", "i", "o", "n", "/", "o", "c", "t", "e", "t", "-", "s", "t", "r", "e", "a", "m", ";", "b", "a", "s", "e", "6", "4", ",", "Q", "Q", "=">>),
     Str(<<"s", "c", "e", "n", "e", ".", "b", "i", "n">>),
     Str(<<"%", "F", "F">>)}

BufferSources == {SourceBin} \cup {SourceUri(u) : u \in BufferUris}

ImageUris ==
    {Str(<<"d", "a", "t", "a", ":", "i", "m", "a", "g", "e", "/", "p", "n", "g", ";", "b", "a", "s", "e", "6", "4", ",", "Q", "U", "I">>),
     Str(<<"d", "a", "t", "a", ":", "i", "m", "a", "g", "e", "/", "p", "n", "g", ";", "b", "a", "s", "e", "6", "4", ",", "Q", "Q", "=">>),
     Str(<<"t", "e", "x", ".", "p", "n", "g">>),
     Str(<<"%", "F", "F">>)}

ViewOffsets == {0, 2}
ViewLengths == {2}

\* the texture sources a primitive can have when the document has the
\* buffers of buffer_data: a view names one of these buffers
TextureSources(buffer_data) ==
    {NoTexture}
    \cup {TextureView(b, o, l, dec) :
             b \in 0..(Len(buffer_data) - 1), o \in ViewOffsets,
             l \in ViewLengths, dec \in BOOLEAN}
    \cup {TextureUri(u, dec) : u \in ImageUris, dec \in BOOLEAN}

\* positions, texture coordinates and indices of the sample primitives
GeomLine ==
    [positions |-> SomeSeq(<<Vec3ZERO, Vec3(Fin(2), Fin(4), Fin(0))>>),
     tex_coords |-> NoSeq, indices |-> SomeSeq(<<0, 1>>)]
GeomPoint ==
    [positions |-> SomeSeq(<<Vec3(Fin(2), Fin(0), Fin(2))>>),
     tex_coords |-> SomeSeq(<<<<Fin(0), Fin(1)>>>>), indices |-> NoSeq]
GeomTooManyUvs ==
    [positions |-> SomeSeq(<<Vec3ZERO>>),
     tex_coords |-> SomeSeq(<<<<Fin(0), Fin(1)>>, <<Fin(1), Fin(1)>>>>),
     indices |-> NoSeq]
GeomAtMax ==
    [positions |-> SomeSeq(<<Vec3(F32MAX, Fin(2), Fin(0))>>),
     tex_coords |-> NoSeq, indices |-> SomeSeq(<<0>>)]
PrimGeoms == {GeomLine, GeomPoint, GeomTooManyUvs, GeomAtMax}

Primitives(buffer_data) ==
    {Primitive(tex, g.positions, g.tex_coords, g.indices) :
        tex \in TextureSources(buffer_data), g \in PrimGeoms}

NoPrimitive == Primitive(NoTexture, NoSeq, NoSeq, NoSeq)
\* what the last step read: nothing, the buffer of some index, or a primitive
NoInput ==
    [kind |-> "none", source |-> SourceBin, index |-> 0, primitive |-> NoPrimitive]
BufferInput(source, index) ==
    [kind |-> "buffer", source |-> source, index |-> index, primitive |-> NoPrimitive]
PrimitiveInput(p) ==
    [kind |-> "primitive", source |-> SourceBin, index |-> 0, primitive |-> p]

GltfRunning == [kind |-> "running", msg |-> "", model |-> ModelDefault]
GltfReturned(kd, m, mdl) == [kind |-> kd, msg |-> m, model |-> mdl]

GltfInit ==
    /\ gltfPc = "start"
    /\ gltfBlob = NoBlob
    /\ gltfBufferData = <<>>
    /\ gltfMeshes = <<>>
    /\ gltfLast = NoInput
    /\ gltfRet = GltfRunning

\* from_gltf returns or panics: its locals are dropped
GltfReturn(kd, m, mdl) ==
    /\ gltfPc' = "done"
    /\ gltfBlob' = NoBlob
    /\ gltfBufferData' = <<>>
    /\ gltfMeshes' = <<>>
    /\ gltfRet' = GltfReturned(kd, m, mdl)

\* ctx.fs.open(path)? and Gltf::from_reader(file)
OpenGltf ==
    /\ gltfPc = "start"
    /\ \E fsOk \in BOOLEAN, parseOk \in BOOLEAN, blob \in GltfBlobs :
           IF ~fsOk THEN GltfReturn("err", "fs", ModelDefault)
           ELSE IF ~parseOk
           THEN GltfReturn("err", "Failed to load gltf model", ModelDefault)
           ELSE /\ gltfPc' = "buffers"
                /\ gltfBlob' = blob
                /\ UNCHANGED <<gltfBufferData, gltfMeshes, gltfRet>>
    /\ UNCHANGED gltfLast
    /\ GltfOnly

\* one turn of the loop over the buffers
ReadBuffer ==
    /\ gltfPc = "buffers"
    /\ Len(gltfBufferData) < MaxBuffers
    /\ \E source \in BufferSources :
           LET buffer_bytes == BufferBytes(source, gltfBlob)
           IN  /\ gltfLast' = BufferInput(source, Len(gltfBufferData))
               /\ IF buffer_bytes.kind = "ok"
                  THEN /\ gltfBufferData' = Append(gltfBufferData, buffer_bytes.val)
                       /\ UNCHANGED <<gltfPc, gltfBlob, gltfMeshes, gltfRet>>
                  ELSE GltfReturn(buffer_bytes.kind, buffer_bytes.msg, ModelDefault)
    /\ GltfOnly

\* the loop over the buffers ends
BuffersDone ==
    /\ gltfPc = "buffers"
    /\ gltfPc' = "meshes"
    /\ gltfLast' = NoInput
    /\ UNCHANGED <<gltfBlob, gltfBufferData, gltfMeshes, gltfRet>>
    /\ GltfOnly

\* a turn of the loop over the primitives that does not wait for the loop
\* over the buffers to end
ReadPrimitiveEarly ==
    /\ gltfPc \in {"buffers", "meshes"}
    /\ Len(gltfMeshes) < MaxPrims
    /\ \E primitive \in Primitives(gltfBufferData) :
           LET mesh == PrimitiveMesh(primitive, gltfBufferData)
           IN  /\ gltfLast' = PrimitiveInput(primitive)
               /\ IF mesh.kind = "ok"
                  THEN /\ gltfMeshes' = Append(gltfMeshes, mesh.val)
                       /\ UNCHANGED <<gltfPc, gltfBlob, gltfBufferData, gltfRet>>
                  ELSE GltfReturn(mesh.kind, mesh.msg, ModelDefault)
    /\ GltfOnly

\* one turn of the loop over the primitives
ReadPrimitive ==
    /\ gltfPc = "meshes"
    /\ Len(gltfMeshes) < MaxPrims
    /\ \E primitive \in Primitives(gltfBufferData) :
           LET mesh == PrimitiveMesh(primitive, gltfBufferData)
           IN  /\ gltfLast' = PrimitiveInput(primitive)
               /\ IF mesh.kind = "ok"
                  THEN /\ gltfMeshes' = Append(gltfMeshes, mesh.val)
                       /\ UNCHANGED <<gltfPc, gltfBlob, gltfBufferData, gltfRet>>
                  ELSE GltfReturn(mesh.kind, mesh.msg, ModelDefault)
    /\ GltfOnly

\* the loop over the primitives ends: the Model is made and returned
FinishGltf ==
    /\ gltfPc = "meshes"
    /\ GltfReturn("ok", "", GltfModel(gltfMeshes))
    /\ gltfLast' = NoInput
    /\ GltfOnly

GltfNext == OpenGltf \/ ReadBuffer \/ BuffersDone \/ ReadPrimitive \/ FinishGltf

(***************************************************************************)
(* A Model in the hands of a caller: its fields are public, so meshes and  *)
(* vertices are added and the transform is set, and to_aabb is called.     *)
(***************************************************************************)
\* at most this many meshes in the model and vertices in all of them
MaxModelMeshes == 2
MaxModelVerts == 3

ModelCoords == {Vec3ZERO, Vec3(Fin(2), Fin(4), Fin(0)), Vec3(F32MAX, Fin(2), Fin(0))}
ModelPlaces == {Vec3ZERO, Vec3(Fin(2), Fin(0), Fin(0))}

ModelNotCalled == [called |-> FALSE, ret |-> None]

ModelInit ==
    /\ model = ModelDefault
    /\ modelAabb = ModelNotCalled

\* model.meshes.push(mesh), the mesh without vertices
AddMesh ==
    /\ Len(model.meshes) < MaxModelMeshes
    /\ model' = [model EXCEPT !.meshes = Append(@, Mesh3dBuild(<<>>, <<>>, WhiteImage))]
    /\ modelAabb' = ModelNotCalled
    /\ ModelOnly

\* model.meshes[k].vertices.push(vertex)
AddVertex ==
    /\ Len(ModelPositions(model.meshes)) < MaxModelVerts
    /\ \E k \in 1..Len(model.meshes), p \in ModelCoords :
           model' = [model EXCEPT !.meshes[k].vertices =
                         Append(@, Vertex3d(p, <<Fin(0), Fin(0)>>, GltfColor))]
    /\ modelAabb' = ModelNotCalled
    /\ ModelOnly

\* model.transform.position = p
MoveModel ==
    /\ \E p \in ModelPlaces :
           /\ p # model.transform.position
           /\ model' = [model EXCEPT !.transform.position = p]
    /\ modelAabb' = ModelNotCalled
    /\ ModelOnly

\* model.to_aabb()
CallModelToAabb ==
    /\ ~modelAabb.called
    /\ modelAabb' = [called |-> TRUE, ret |-> ModelToAabb(model.meshes)]
    /\ UNCHANGED model
    /\ ModelOnly

ModelNext == AddMesh \/ AddVertex \/ MoveModel \/ CallModelToAabb

(***************************************************************************)
(* Instance3d::from_param, with glam's Mat4 as four columns of four f32    *)
(***************************************************************************)
\* a * b
FMul(a, b) ==
    CASE IsNaN(a) \/ IsNaN(b) -> NaN
      [] IsFin(a) /\ IsFin(b) -> FRound(2 * a.v * b.v)
      [] (IsFin(a) /\ a.v = 0) \/ (IsFin(b) /\ b.v = 0) -> NaN
      [] OTHER -> IF (a.v < 0) = (b.v < 0) THEN PosInf ELSE NegInf

Vec3Neg(a) == [i \in Axes |-> FNeg(a[i])]
Vec4(x, y, z, w) == <<x, y, z, w>>
Vec4Add(a, b) == [i \in 1..4 |-> FAdd(a[i], b[i])]
Vec4Scale(a, s) == [i \in 1..4 |-> FMul(a[i], s)]

Mat4(x_axis, y_axis, z_axis, w_axis) == <<x_axis, y_axis, z_axis, w_axis>>

\* Mat4::from_translation
FromTranslation(t) ==
    Mat4(Vec4(Fin(1), Fin(0), Fin(0), Fin(0)),
         Vec4(Fin(0), Fin(1), Fin(0), Fin(0)),
         Vec4(Fin(0), Fin(0), Fin(1), Fin(0)),
         Vec4(t[1], t[2], t[3], Fin(1)))

\* Mat4::from_scale
FromScale(s) ==
    Mat4(Vec4(s[1], Fin(0), Fin(0), Fin(0)),
         Vec4(Fin(0), s[2], Fin(0), Fin(0)),
         Vec4(Fin(0), Fin(0), s[3], Fin(0)),
         Vec4(Fin(0), Fin(0), Fin(0), Fin(1)))

\* Mat4::from_quat of the quaternion (x, y, z, w)
FromQuat(q) ==
    LET x2 == FAdd(q[1], q[1])
        y2 == FAdd(q[2], q[2])
        z2 == FAdd(q[3], q[3])
        xx == FMul(q[1], x2)
        xy == FMul(q[1], y2)
        xz == FMul(q[1], z2)
        yy == FMul(q[2], y2)
        yz == FMul(q[2], z2)
        zz == FMul(q[3], z2)
        wx == FMul(q[4], x2)
        wy == FMul(q[4], y2)
        wz == FMul(q[4], z2)
    IN  Mat4(Vec4(FSub(Fin(1), FAdd(yy, zz)), FAdd(xy, wz), FSub(xz, wy), Fin(0)),
             Vec4(FSub(xy, wz), FSub(Fin(1), FAdd(xx, zz)), FAdd(yz, wx), Fin(0)),
             Vec4(FAdd(xz, wy), FSub(yz, wx), FSub(Fin(1), FAdd(xx, yy)), Fin(0)),
             Vec4(Fin(0), Fin(0), Fin(0), Fin(1)))

\* Mat4 * Vec4: the columns scaled by the components, added from the left
MulVec4(m, v) ==
    Vec4Add(Vec4Add(Vec4Add(Vec4Scale(m[1], v[1]), Vec4Scale(m[2], v[2])),
                    Vec4Scale(m[3], v[3])),
            Vec4Scale(m[4], v[4]))

\* Mat4 * Mat4
Mat4Mul(a, b) == [j \in 1..4 |-> MulVec4(a, b[j])]

\* DrawParam3d, as far as from_param reads it
NoPivot == [some |-> FALSE, val |-> Vec3ZERO]
SomePivot(p) == [some |-> TRUE, val |-> p]
Transform3d(p, r, s) == [position |-> p, rotation |-> r, scale |-> s]
DrawParam3d(t, piv, c) == [transform |-> t, pivot |-> piv, color |-> c]
DrawParam3dDefault == DrawParam3d(Transform3dDefault, NoPivot, White)

Instance3d(t, c) == [transform |-> t, color |-> c]

\* from_param without the translation by -pivot
FromParamNoUndo(p, c) ==
    LET pivot == IF p.pivot.some THEN Vec3Add(p.pivot.val, c)
                 ELSE Vec3Add(p.transform.position, c)
    IN  Instance3d(
            Mat4Mul(Mat4Mul(Mat4Mul(FromTranslation(pivot),
                                    FromScale(p.transform.scale)),
                            FromQuat(p.transform.rotation)),
                    FromTranslation(p.transform.position)),
            p.color)

\* Instance3d::from_param
FromParam(p, c) ==
    LET offset == c
        pivot == IF p.pivot.some THEN Vec3Add(p.pivot.val, offset)
                 ELSE Vec3Add(p.transform.position, offset)
        transform ==
            Mat4Mul(Mat4Mul(Mat4Mul(Mat4Mul(FromTranslation(pivot),
                                            FromScale(p.transform.scale)),
                                    FromQuat(p.transform.rotation)),
                            FromTranslation(Vec3Neg(pivot))),
                    FromTranslation(p.transform.position))
    IN  Instance3d(transform, p.color)

(***************************************************************************)
(* The state machine: a caller sets the fields of a draw parameter, picks  *)
(* a center, and from_param is called on them.                             *)
(***************************************************************************)
InstPositions ==
    {Vec3ZERO, Vec3(Fin(1), Fin(0), Fin(0)), Vec3(Fin(2), Fin(4), Fin(-3)),
     Vec3(F32MAX, F32MIN, Fin(0)), Vec3(PosInf, Fin(0), Fin(0)),
     Vec3(NaN, Fin(0), Fin(0))}
\* the identity and the half turn about the z axis
InstRotations == {<<Fin(0), Fin(0), Fin(0), Fin(1)>>, <<Fin(0), Fin(0), Fin(1), Fin(0)>>}
InstScales == {Vec3(Fin(1), Fin(1), Fin(1)), Vec3(Fin(2), Fin(2), Fin(2))}
InstPivots == {NoPivot} \cup {SomePivot(p) : p \in InstPositions}
InstCenters == {Vec3ZERO, Vec3(Fin(1), Fin(0), Fin(0))}

InstNotCalled == [called |-> FALSE, val |-> Instance3d(FromTranslation(Vec3ZERO), White)]

InstInit ==
    /\ instParam = DrawParam3dDefault
    /\ instCenter = Vec3ZERO
    /\ instOut = InstNotCalled

SetPosition ==
    /\ ~instOut.called
    /\ \E p \in InstPositions :
           /\ p # instParam.transform.position
           /\ instParam' = [instParam EXCEPT !.transform.position = p]
    /\ UNCHANGED <<instCenter, instOut>>
    /\ InstOnly

SetRotation ==
    /\ ~instOut.called
    /\ \E r \in InstRotations :
           /\ r # instParam.transform.rotation
           /\ instParam' = [instParam EXCEPT !.transform.rotation = r]
    /\ UNCHANGED <<instCenter, instOut>>
    /\ InstOnly

SetScale ==
    /\ ~instOut.called
    /\ \E s \in InstScales :
           /\ s # instParam.transform.scale
           /\ instParam' = [instParam EXCEPT !.transform.scale = s]
    /\ UNCHANGED <<instCenter, instOut>>
    /\ InstOnly

SetPivot ==
    /\ ~instOut.called
    /\ \E piv \in InstPivots :
           /\ piv # instParam.pivot
           /\ instParam' = [instParam EXCEPT !.pivot = piv]
    /\ UNCHANGED <<instCenter, instOut>>
    /\ InstOnly

SetCenter ==
    /\ ~instOut.called
    /\ \E c \in InstCenters :
           /\ c # instCenter
           /\ instCenter' = c
    /\ UNCHANGED <<instParam, instOut>>
    /\ InstOnly

CallFromParam ==
    /\ ~instOut.called
    /\ instOut' = [called |-> TRUE, val |-> FromParam(instParam, instCenter)]
    /\ UNCHANGED <<instParam, instCenter>>
    /\ InstOnly

InstNext ==
    SetPosition \/ SetRotation \/ SetScale \/ SetPivot \/ SetCenter \/ CallFromParam

(***************************************************************************)
(* Mesh3dBuilder and Mesh3d::gen_bind_group.  The objects made on the      *)
(* device (buffers, samplers, bind groups) are numbered in the order of    *)
(* their creation.                                                         *)
(***************************************************************************)
NoObject == [some |-> FALSE, val |-> 0]
SomeObject(id) == [some |-> TRUE, val |-> id]

NoImage == [some |-> FALSE, val |-> WhiteImage]
SomeImage(img) == [some |-> TRUE, val |-> img]

\* a bind group: the layout of the pipeline it was made for, the image and
\* the sampler it binds
NoBindGroup ==
    [some |-> FALSE, val |-> [id |-> 0, pipeline |-> 0, image |-> WhiteImage, sampler |-> 0]]
SomeBindGroup(id, pipeline_id, image, sampler) ==
    [some |-> TRUE,
     val |-> [id |-> id, pipeline |-> pipeline_id, image |-> image, sampler |-> sampler]]

\* Mesh3dBuilder::new
Mesh3dBuilderNew == [vertices |-> <<>>, indices |-> <<>>, texture |-> NoImage]

\* from_data adding to the lists the builder holds
FromDataAppend(b, vertices, indices, texture) ==
    [vertices |-> b.vertices \o vertices, indices |-> b.indices \o indices,
     texture |-> texture]

\* Mesh3dBuilder::from_data
FromData(b, vertices, indices, texture) ==
    [b EXCEPT !.vertices = vertices, !.indices = indices, !.texture = texture]

Mesh3d(vb, ib, bg, tex, vs, is) ==
    [vert_buffer |-> vb, ind_buffer |-> ib, bind_group |-> bg,
     texture |-> tex, vertices |-> vs, indices |-> is]

\* Mesh3dBuilder::build, the device having made n objects so far
Build(b, n) ==
    Mesh3d(SomeObject(n), SomeObject(n + 1), NoBindGroup,
           b.texture, b.vertices, b.indices)

\* canvas.default_image
CanvasDefaultImage == [kind |-> "canvas default", data |-> <<>>]

\* Mesh3d::gen_bind_group, the device having made n objects so far
GenBindGroup(m, pipeline_id, n) ==
    [m EXCEPT !.bind_group =
        SomeBindGroup(n + 1, pipeline_id,
                      IF m.texture.some THEN m.texture.val ELSE CanvasDefaultImage,
                      n)]

(***************************************************************************)
(* The state machine: a caller fills a builder, builds meshes from it, and *)
(* the canvas asks the last mesh built for its bind group.                 *)
(***************************************************************************)
\* at most this many objects are made on the device; the canvas has this
\* many pipelines
MaxGpuObjects == 8
NumPipelines == 2

MeshVertex(p) == Vertex3d(p, <<Fin(0), Fin(0)>>, White)
VertexLists == {<<>>, <<MeshVertex(Vec3ZERO), MeshVertex(Vec3(Fin(1), Fin(0), Fin(0)))>>}
IndexLists == {<<>>, <<0, 1>>, <<2>>}
Textures == {NoImage, SomeImage(WhiteImage)}

NoMesh == [some |-> FALSE, val |-> Build(Mesh3dBuilderNew, 0)]
SomeMesh(m) == [some |-> TRUE, val |-> m]

MeshInit ==
    /\ meshBuilder = Mesh3dBuilderNew
    /\ meshBuilt = NoMesh
    /\ meshGpu = 0

CallFromData ==
    /\ \E vertices \in VertexLists, indices \in IndexLists, texture \in Textures :
           meshBuilder' = FromData(meshBuilder, vertices, indices, texture)
    /\ UNCHANGED <<meshBuilt, meshGpu>>
    /\ MeshOnly

CallBuild ==
    /\ meshGpu + 2 <= MaxGpuObjects
    /\ meshBuilt' = SomeMesh(Build(meshBuilder, meshGpu))
    /\ meshGpu' = meshGpu + 2
    /\ UNCHANGED meshBuilder
    /\ MeshOnly

CallGenBindGroup ==
    /\ meshBuilt.some
    /\ meshGpu + 2 <= MaxGpuObjects
    /\ \E pipeline_id \in 0..(NumPipelines - 1) :
           meshBuilt' = SomeMesh(GenBindGroup(meshBuilt.val, pipeline_id, meshGpu))
    /\ meshGpu' = meshGpu + 2
    /\ UNCHANGED meshBuilder
    /\ MeshOnly

MeshNext == CallFromData \/ CallBuild \/ CallGenBindGroup

(***************************************************************************)
(* The specifications                                                      *)
(***************************************************************************)
\* the state after construction, of every part
Init == ConfInit /\ AabbInit /\ ObjInit /\ PathInit /\ UriInit /\ GltfInit /\ ModelInit /\ InstInit /\ MeshInit

SpecConf == Init /\ [][ConfNext]_vars
SpecAabb == Init /\ [][AabbNext]_vars
SpecObj == Init /\ [][ObjNext]_vars
SpecPath == Init /\ [][PathNext]_vars
SpecUri == Init /\ [][UriNext]_vars
SpecGltf == Init /\ [][GltfNext]_vars
SpecModel == Init /\ [][ModelNext]_vars
SpecInst == Init /\ [][InstNext]_vars
SpecMesh == Init /\ [][MeshNext]_vars

(***************************************************************************)
(* Claims                                                                  *)
(***************************************************************************)
\* whether one of the Conf's f32 fields is NaN
HasNaN(c) ==
    \E ky \in WindowModeFloatKeys : IsNaN(c.window_mode[ky])

\* C1 (as stated): once the written Conf has been read back, reading has
\* succeeded and the Conf read equals (==) the Conf that was written.
C1_RoundTripAny ==
    confLoaded.state # "none" =>
        confLoaded.state = "ok" /\ ConfEq(confLoaded.conf, conf)

\* C1 (amended): the round trip succeeds for every Conf, and the Conf read
\* equals the Conf written whenever none of the written Conf's f32 fields is
\* NaN.
C1_RoundTrip ==
    confLoaded.state # "none" =>
        /\ confLoaded.state = "ok"
        /\ ~HasNaN(conf) => ConfEq(confLoaded.conf, conf)

\* a Conf changed by two setters, one of them a float setter, has been
\* written and read back
C1_Witness ==
    /\ confLoaded.state = "ok"
    /\ confCalls = 2
    /\ conf.window_mode.width = Fin(1280)
    /\ conf.backend = "Vulkan"
    /\ ConfEq(confLoaded.conf, conf)

\* the least and the greatest coordinate of the vertices on axis i
AxisMin(ps, i) == SetMin({ps[n][i].v : n \in 1..Len(ps)})
AxisMax(ps, i) == SetMax({ps[n][i].v : n \in 1..Len(ps)})

\* whether the integer n is a finite f32 (no rounding, no overflow)
Representable(n) == Abs(n) \in FinVals
\* ... and its half as well
HalfRepresentable(n) == n % 2 = 0 /\ Representable(n \div 2)

\* on axis i the sum and the difference of the bounds, and their halves, are
\* exact in f32
ExactAxis(ps, i) ==
    LET lo == AxisMin(ps, i)
        hi == AxisMax(ps, i)
    IN  /\ Representable(hi + lo) /\ HalfRepresentable(hi + lo)
        /\ Representable(hi - lo) /\ HalfRepresentable(hi - lo)

\* center - half_extent = minimum and center + half_extent = maximum on axis i
BoundsAxis(box, ps, i) ==
    /\ FEq(FSub(box.center[i], box.half_extents[i]), Fin(AxisMin(ps, i)))
    /\ FEq(FAdd(box.center[i], box.half_extents[i]), Fin(AxisMax(ps, i)))

\* every vertex lies between center - half_extent and center + half_extent
Inside(box, ps) ==
    \A n \in 1..Len(ps), i \in Axes :
        /\ FLe(FSub(box.center[i], box.half_extents[i]), ps[n][i])
        /\ FLe(ps[n][i], FAdd(box.center[i], box.half_extents[i]))

ReturnedBox == aabbOut.called /\ Len(meshVerts) >= 1 /\ aabbOut.ret.some

\* C2 (as stated): the box returned for a mesh with at least one vertex has
\* half-extents >= 0, center -+ half_extent are the minimum and the maximum
\* of the positions on every axis, and every vertex lies inside the box.
C2_ExactBounds ==
    ReturnedBox =>
        LET box == aabbOut.ret.val
        IN  /\ \A i \in Axes : FLe(Fin(0), box.half_extents[i])
            /\ \A i \in Axes : BoundsAxis(box, meshVerts, i)
            /\ Inside(box, meshVerts)

\* C2 (amended): the box returned for a mesh with at least one vertex (all
\* coordinates finite) has half-extents >= 0, and on every axis where
\* max + min, max - min and their halves are exact in f32, center -+
\* half_extent are the minimum and the maximum of the positions, so every
\* vertex lies inside the box on that axis.
C2_BoundsWhenExact ==
    ReturnedBox =>
        LET box == aabbOut.ret.val
        IN  /\ \A i \in Axes : FLe(Fin(0), box.half_extents[i])
            /\ \A i \in Axes :
                   ExactAxis(meshVerts, i) =>
                       /\ BoundsAxis(box, meshVerts, i)
                       /\ \A n \in 1..Len(meshVerts) :
                              /\ FLe(FSub(box.center[i], box.half_extents[i]),
                                     meshVerts[n][i])
                              /\ FLe(meshVerts[n][i],
                                     FAdd(box.center[i], box.half_extents[i]))

\* a box was returned for a mesh of three vertices that differ on every axis,
\* all three axes exact
C2_Witness ==
    /\ ReturnedBox
    /\ Len(meshVerts) = 3
    /\ \A i \in Axes :
           /\ AxisMin(meshVerts, i) < AxisMax(meshVerts, i)
           /\ ExactAxis(meshVerts, i)

\* C3: to_aabb returns none exactly when the mesh has no vertices.
C3_NoneIffEmpty ==
    aabbOut.called => (aabbOut.ret.some <=> Len(meshVerts) >= 1)

\* whether some face of the input is not a triangle
HasNonTriangle == \E k \in 1..Len(objFaces) : Len(objFaces[k].vec) # 3

C5_VertsAndUvs ==
    (objOut.run /\ objOut.ret.ok) =>
        LET vs == objOut.ret.verts
        IN  /\ Len(vs) = Len(objPos)
            /\ \A i \in 1..Len(vs) :
                   /\ vs[i].pos = <<objPos[i][1], objPos[i][2], objPos[i][3]>>
                   /\ vs[i].tex_coord =
                          IF Len(objPos) = Len(objTex)
                          THEN <<objTex[i][1], objTex[i][2]>>
                          ELSE <<Fin(0), Fin(0)>>

\* three positions with three texture coordinates, zipped
C5_Witness ==
    /\ objOut.run /\ objOut.ret.ok
    /\ Len(objPos) = 3 /\ Len(objTex) = 3
    /\ objOut.ret.verts[3].tex_coord = <<Fin(12), Fin(22)>>

\* the position indices of the faces, face after face
RECURSIVE FaceIndices(_)
FaceIndices(faces) ==
    IF Len(faces) = 0 THEN <<>>
    ELSE LET f == faces[Len(faces)]
         IN  FaceIndices(SubSeq(faces, 1, Len(faces) - 1))
                 \o [j \in 1..Len(f.vec) |-> f.vec[j][1]]

\* C6: on success every index of the output is below the number of output
\* vertices, and the index list holds three indices per face, in face
\* order: the position indices of the face's entries.
C6_Indices ==
    (objOut.run /\ objOut.ret.ok) =>
        LET is == objOut.ret.inds
        IN  /\ \A j \in 1..Len(is) : is[j] < Len(objOut.ret.verts)
            /\ Len(is) = 3 * Len(objFaces)
            /\ is = FaceIndices(objFaces)

\* two triangles that share vertices, with different index orders
C6_Witness ==
    /\ objOut.run /\ objOut.ret.ok
    /\ Len(objFaces) = 2
    /\ objOut.ret.inds = <<0, 1, 2, 2, 0, 1>>

(***************************************************************************)
(* Claims about Model::from_path                                           *)
(***************************************************************************)
\* C7: from_path selects the importer from the path's extension only:
\* extension obj calls the obj importer, extensions gltf and glb call the
\* gltf importer, and any other extension or a path with no extension
\* returns an error without opening the file or calling either importer.
C7_Dispatch ==
    pathOut.called =>
        LET extension == PathExtension(pathIn.text)
        IN  /\ (extension.some /\ extension.val = Str(<<"o", "b", "j">>))
                   => pathOut.importer = "obj"
            /\ (extension.some /\ extension.val \in {Str(<<"g", "l", "t", "f">>), Str(<<"g", "l", "b">>)})
                   => pathOut.importer = "gltf"
            /\ (~extension.some \/ extension.val \notin {Str(<<"o", "b", "j">>), Str(<<"g", "l", "t", "f">>), Str(<<"g", "l", "b">>)})
                   => /\ pathOut.importer = "none"
                      /\ ~pathOut.opened
                      /\ ~pathOut.ret.ok
            /\ pathIn.text = Str(<<"m", ".", "o", "b", "j">>) => pathOut.importer = "obj"
            /\ pathIn.text \in {Str(<<"m", ".", "g", "l", "t", "f">>), Str(<<"m", ".", "g", "l", "b">>), Str(<<"m", "/", "m", ".", "g", "l", "b">>)}
                   => pathOut.importer = "gltf"
            /\ pathIn.text \in {Str(<<"m", ".", "t", "x", "t">>), Str(<<"m">>), Str(<<".", "o", "b", "j">>), Str(<<"m", ".", "O", "B", "J">>), Str(<<"o", "b", "j">>), Str(<<"m", ".">>), Str(<<"m", "/", ".", "o", "b", "j">>)}
                   => pathOut.importer = "none" /\ ~pathOut.opened /\ ~pathOut.ret.ok

\* m.glb went to the gltf importer, which opened the file
C7_Witness ==
    /\ pathOut.called
    /\ pathIn.text = Str(<<"m", ".", "g", "l", "b">>)
    /\ pathOut.importer = "gltf"
    /\ pathOut.opened

\* m.txt was refused without the file being opened
C7_WitnessRefused ==
    /\ pathOut.called
    /\ pathIn.text = Str(<<"m", ".", "t", "x", "t">>)
    /\ pathOut.importer = "none"
    /\ ~pathOut.opened
    /\ pathOut.ret = LoadErr("Not a obj or gltf file")

(***************************************************************************)
(* Claims about DataUri                                                    *)
(***************************************************************************)
\* a string that starts with data: and has a comma after that prefix
WellFormedDataUri(s) ==
    StartsWith(s, DataPrefix) /\ Contains(Drop(s, Len(DataPrefix)), Comma)

\* the symbol of the standard base64 alphabet with the value v
SextetChar(v) ==
    IF v < 26 THEN v + 65
    ELSE IF v < 52 THEN v + 71
    ELSE IF v < 62 THEN v - 4
    ELSE IF v = 62 THEN 43
    ELSE 47

\* the standard base64 text of some bytes, without padding
RECURSIVE Base64Encode(_)
Base64Encode(b) ==
    IF b = <<>> THEN <<>>
    ELSE IF Len(b) = 1
    THEN <<SextetChar(b[1] \div 4), SextetChar((b[1] % 4) * 16)>>
    ELSE IF Len(b) = 2
    THEN LET n == b[1] * 256 + b[2]
         IN  <<SextetChar(n \div 1024), SextetChar((n \div 16) % 64),
               SextetChar((n % 16) * 4)>>
    ELSE LET n == b[1] * 65536 + b[2] * 256 + b[3]
         IN  <<SextetChar(n \div 262144), SextetChar((n \div 4096) % 64),
               SextetChar((n \div 64) % 64), SextetChar(n % 64)>>
             \o Base64Encode(Drop(b, 3))

\* byte vectors whose base64 text is among the payloads
SampleBytes == {<<>>, Str(<<"A">>), Str(<<"A", "B">>), Str(<<"A", "B", "C">>), Str(<<"A", "B", "C", "D">>)}

\* C8: parse succeeds exactly on strings that start with data: and contain
\* a comma after that prefix; on success the payload is everything after the
\* first comma, the MIME type is the text between the prefix and that comma
\* with a trailing ;base64 removed, and the base64 flag is set exactly when
\* that suffix was present.  decode returns the base64-decoded payload when
\* the flag is set (an error when the payload is not unpadded base64) and
\* the payload's raw bytes otherwise.
C8_ParseDecode ==
    /\ uriParsed.called =>
           LET r == uriParsed.ret
               segment == r.mime_type \o (IF r.base64 THEN Base64Suffix ELSE <<>>)
           IN  /\ r.ok <=> WellFormedDataUri(uriIn.text)
               /\ r.ok =>
                      /\ uriIn.text = DataPrefix \o segment \o <<Comma>> \o r.data
                      /\ ~Contains(segment, Comma)
                      /\ ~r.base64 => ~EndsWith(r.mime_type, Base64Suffix)
    /\ uriDecoded.called =>
           LET d == uriParsed.ret
               ret == uriDecoded.ret
           IN  /\ ~d.base64 => ret = BytesOk(d.data)
               /\ d.base64 =>
                      /\ ret.ok => Base64Encode(ret.val) = d.data
                      /\ (\E b \in SampleBytes : Base64Encode(b) = d.data) => ret.ok
                      /\ ~ret.ok => ret = BytesErr("Failed to decode base64")

\* data:application/octet-stream;base64,QUJD was parsed and decoded to A B C
C8_Witness ==
    /\ uriDecoded.called
    /\ uriIn.text = Str(<<"d", "a", "t", "a", ":", "a", "p", "p", "l", "i", "c", "a", "t", "i", "o", "n", "/", "o", "c", "t", "e", "t", "-", "s", "t", "r", "e", "a", "m", ";", "b", "a", "s", "e", "6", "4", ",", "Q", "U", "J", "D">>)
    /\ uriParsed.ret = DataUri(Str(<<"a", "p", "p", "l", "i", "c", "a", "t", "i", "o", "n", "/", "o", "c", "t", "e", "t", "-", "s", "t", "r", "e", "a", "m">>), TRUE, Str(<<"Q", "U", "J", "D">>))
    /\ uriDecoded.ret = BytesOk(<<65, 66, 67>>)

\* a payload with a comma of its own was parsed and kept whole
C8_WitnessComma ==
    /\ uriDecoded.called
    /\ uriIn.text = Str(<<"d", "a", "t", "a", ":", "t", "e", "x", "t", "/", "p", "l", "a", "i", "n", ",", "A", ",", "B">>)
    /\ uriParsed.ret = DataUri(Str(<<"t", "e", "x", "t", "/", "p", "l", "a", "i", "n">>), FALSE, Str(<<"A", ",", "B">>))
    /\ uriDecoded.ret = BytesOk(Str(<<"A", ",", "B">>))

(***************************************************************************)
(* Claims about Model::from_gltf                                           *)
(***************************************************************************)
\* whether the buffer URI u, its percent escapes resolved, is a well-formed
\* data URI
BufferUriWellFormed(u) ==
    IsUtf8(PercentDecode(u)) /\ WellFormedDataUri(PercentDecode(u))

\* C9: a buffer given as a data URI is accepted only when its MIME type is
\* application/octet-stream or application/gltf-buffer; a well-formed data
\* URI with any other MIME type (an empty one too) makes the load fail with
\* the unsupported-buffer-format error, and a buffer URI that is not a
\* well-formed data URI makes it fail with a decode error.
C9_BufferMime ==
    (gltfLast.kind = "buffer" /\ gltfLast.source.kind = "Uri") =>
        LET u == gltfLast.source.uri
            d == DataUriParse(PercentDecode(u))
        IN  /\ gltfRet.kind = "running" =>
                   BufferUriWellFormed(u) /\ d.mime_type \in VALID_MIME_TYPES
            /\ (BufferUriWellFormed(u) /\ d.mime_type \notin VALID_MIME_TYPES) =>
                   /\ gltfRet.kind = "err"
                   /\ gltfRet.msg = "Buffer Format Unsupported"
            /\ ~BufferUriWellFormed(u) =>
                   /\ gltfRet.kind = "err"
                   /\ gltfRet.msg = "Failed to decode"

\* the texture is bad in one of these ways: an image URI that is not a data
\* URI, a data URI whose base64 payload is invalid, image bytes that do not
\* decode
BadTexture(t) ==
    \/ /\ t.kind = "Uri"
       /\ IsUtf8(PercentDecode(t.uri))
       /\ ~StartsWith(PercentDecode(t.uri), DataPrefix)
    \/ /\ t.kind = "Uri"
       /\ IsUtf8(PercentDecode(t.uri))
       /\ DataUriParse(PercentDecode(t.uri)).ok
       /\ DataUriParse(PercentDecode(t.uri)).base64
       /\ ~Base64Decode(DataUriParse(PercentDecode(t.uri)).data).ok
    \/ /\ t.kind = "Uri"
       /\ IsUtf8(PercentDecode(t.uri))
       /\ DataUriParse(PercentDecode(t.uri)).ok
       /\ DataUriDecode(DataUriParse(PercentDecode(t.uri))).ok
       /\ ~t.decodes
    \/ /\ t.kind = "View"
       /\ t.buffer < Len(gltfBufferData)
       /\ t.offset + t.length <= Len(gltfBufferData[t.buffer + 1])
       /\ ~t.decodes

\* the primitive has no more texture coordinates than positions
GeometryFits(p) ==
    p.tex_coords.some =>
        Len(p.tex_coords.val) <= (IF p.positions.some THEN Len(p.positions.val) ELSE 0)

\* C10: a problem with a primitive's base-color texture never makes the
\* load fail: for every way the texture can be bad (image bytes that do not
\* decode, an image URI that is not a data URI, a data URI whose base64
\* payload is invalid) the primitive's mesh is built with a default image
\* and the load goes on.
C10_BadTextureDefault ==
    (/\ gltfLast.kind = "primitive"
     /\ GeometryFits(gltfLast.primitive)
     /\ BadTexture(gltfLast.primitive.texture)) =>
        /\ gltfRet.kind = "running"
        /\ Len(gltfMeshes) > 0
        /\ gltfMeshes[Len(gltfMeshes)].texture = DefaultImage

(***************************************************************************)
(* Claims about the Model an importer returns                              *)
(***************************************************************************)
\* C11: a Model returned by from_gltf has the default transform and a center
\* that is present and is the center of the union bounding box of all its
\* meshes' vertices (compared on the axes where the midpoint is exact in
\* f32), or the origin when every mesh is empty.
C11_ModelCenter ==
    gltfRet.kind = "ok" =>
        LET ps == ModelPositions(gltfRet.model.meshes)
            center == gltfRet.model.center
        IN  /\ gltfRet.model.transform = Transform3dDefault
            /\ center.some
            /\ ps = <<>> => center.val = Vec3ZERO
            /\ ps # <<>> =>
                   \A i \in Axes :
                       ExactAxis(ps, i) =>
                           FEq(center.val[i],
                               Fin((AxisMin(ps, i) + AxisMax(ps, i)) \div 2))

\* C12: Model::to_aabb returns what Mesh3d::to_aabb returns for one mesh
\* holding all the meshes' vertices, whatever the model's transform, and
\* returns none exactly when the meshes hold no vertex.
C12_UnionBox ==
    modelAabb.called =>
        /\ modelAabb.ret = MeshToAabb(ModelPositions(model.meshes))
        /\ modelAabb.ret.some <=> ModelPositions(model.meshes) # <<>>

(***************************************************************************)
(* Claims about Instance3d::from_param                                     *)
(***************************************************************************)
\* the translation column of the placement matrix
Translation(inst) == <<inst.transform[4][1], inst.transform[4][2], inst.transform[4][3]>>

Vec3Eq(a, b) == \A i \in Axes : FEq(a[i], b[i])
Vec3Finite(a) == \A i \in Axes : IsFin(a[i])

\* pivot at the transform's position (or none given), no offset, identity
\* rotation, scale 1
PlainPlacement ==
    /\ instParam.pivot = NoPivot \/ instParam.pivot = SomePivot(instParam.transform.position)
    /\ instCenter = Vec3ZERO
    /\ instParam.transform.rotation = Transform3dDefault.rotation
    /\ instParam.transform.scale = Transform3dDefault.scale

\* C13 (as stated): with the pivot at the transform's position, a zero
\* offset, identity rotation and scale (1,1,1) the translation column of
\* the matrix equals the transform's position, for every position.
C13_PlainTranslation ==
    (instOut.called /\ PlainPlacement) =>
        Vec3Eq(Translation(instOut.val), instParam.transform.position)

\* C13 (amended): with the pivot at the transform's position, a zero
\* offset, identity rotation and scale (1,1,1) the translation column of
\* the matrix equals the transform's position, for every position whose
\* components are finite.
C13_PlainTranslationFinite ==
    (instOut.called /\ PlainPlacement /\ Vec3Finite(instParam.transform.position)) =>
        Vec3Eq(Translation(instOut.val), instParam.transform.position)

\* the position (f32::MAX, f32::MIN, 0) with an explicit pivot on it came
\* back as the translation
C13_Witness ==
    /\ instOut.called /\ PlainPlacement
    /\ instParam.transform.position = Vec3(F32MAX, F32MIN, Fin(0))
    /\ instParam.pivot = SomePivot(instParam.transform.position)
    /\ Translation(instOut.val) = instParam.transform.position

\* C16: for every draw parameter (all components finite) the translation
\* part of the placement matrix equals the transform's position, whatever
\* the rotation, the scale, the pivot and the world offset.
C16_TranslationIsPosition ==
    (/\ instOut.called
     /\ Vec3Finite(instParam.transform.position)
     /\ instParam.pivot.some => Vec3Finite(instParam.pivot.val)) =>
        Vec3Eq(Translation(instOut.val), instParam.transform.position)

(***************************************************************************)
(* Claims about Mesh3dBuilder and Mesh3d::gen_bind_group.                  *)
(***************************************************************************)
\* a step that is a build: the mesh held afterwards has buffers the mesh
\* held before, if any, did not have
IsBuildStep ==
    /\ meshBuilt'.some
    /\ meshBuilt.some => meshBuilt'.val.vert_buffer # meshBuilt.val.vert_buffer

\* what a caller can hand to from_data
SuppliedData ==
    {[vertices |-> vs, indices |-> is, texture |-> tex] :
        vs \in VertexLists, is \in IndexLists, tex \in Textures}

\* C14: build returns a mesh whose vertices, indices and texture are those
\* the builder holds, with a vertex buffer and an index buffer that did not
\* exist before and no bind group, and leaves the builder as it was, so a
\* second build gives the same CPU data with other buffers; the builder
\* holds what the last from_data call supplied, nothing of earlier calls.
C14_BuildCopies ==
    [][ /\ IsBuildStep =>
              /\ meshBuilt'.val.vertices = meshBuilder.vertices
              /\ meshBuilt'.val.indices = meshBuilder.indices
              /\ meshBuilt'.val.texture = meshBuilder.texture
              /\ meshBuilt'.val.vert_buffer.some
              /\ meshBuilt'.val.ind_buffer.some
              /\ meshBuilt'.val.vert_buffer.val >= meshGpu
              /\ meshBuilt'.val.ind_buffer.val >= meshGpu
              /\ meshBuilt'.val.ind_buffer # meshBuilt'.val.vert_buffer
              /\ ~meshBuilt'.val.bind_group.some
              /\ meshBuilder' = meshBuilder
              /\ (meshBuilt.some /\ meshBuilt.val.vertices = meshBuilder.vertices
                    /\ meshBuilt.val.indices = meshBuilder.indices
                    /\ meshBuilt.val.texture = meshBuilder.texture) =>
                     /\ meshBuilt'.val.vertices = meshBuilt.val.vertices
                     /\ meshBuilt'.val.indices = meshBuilt.val.indices
                     /\ meshBuilt'.val.texture = meshBuilt.val.texture
                     /\ meshBuilt'.val.ind_buffer # meshBuilt.val.ind_buffer
        /\ meshBuilder' # meshBuilder => meshBuilder' \in SuppliedData ]_vars

\* C14, witness: a second build, from a builder that from_data has filled
C14_Witness ==
    /\ meshBuilt.some
    /\ meshBuilt.val.vert_buffer.val >= 2
    /\ meshBuilt.val.vertices # <<>>
    /\ meshBuilt.val.indices = <<0, 1>>
    /\ meshBuilt.val.texture.some
    /\ meshBuilt.val.vertices = meshBuilder.vertices

\* C15: in every mesh that exists each index is less than the number of
\* vertices.
C15_IndicesInRange ==
    meshBuilt.some =>
        \A i \in 1..Len(meshBuilt.val.indices) :
            meshBuilt.val.indices[i] < Len(meshBuilt.val.vertices)

\* C19: a mesh has no bind group after build, and once it holds a bind
\* group made for a pipeline, a later gen_bind_group call for the same
\* pipeline leaves it holding that bind group.
C19_BindGroupCached ==
    [][ /\ IsBuildStep => ~meshBuilt'.val.bind_group.some
        /\ (/\ meshBuilt.some /\ meshBuilt'.some
            /\ meshBuilt'.val.vert_buffer = meshBuilt.val.vert_buffer
            /\ meshBuilt.val.bind_group.some
            /\ meshBuilt'.val.bind_group.some
            /\ meshBuilt'.val.bind_group.val.pipeline = meshBuilt.val.bind_group.val.pipeline)
               => meshBuilt'.val.bind_group = meshBuilt.val.bind_group ]_vars

(***************************************************************************)
(* Claims about the order of the two loops of Model::from_gltf and about   *)
(* the vertices of a primitive.                                            *)
(***************************************************************************)
\* C17: from_gltf resolves every buffer before it reads a primitive: while
\* the buffers are being resolved no primitive has been read and no mesh
\* built, a primitive is read only after the loop over the buffers ended,
\* and a buffer that cannot be resolved, at whatever index, ends the call at
\* once with a failure (the missing-blob error for a Bin buffer without
\* blob) and no model.
C17_BuffersFirst ==
    [][ /\ gltfPc' \in {"start", "buffers"} =>
              /\ gltfMeshes' = <<>>
              /\ gltfLast'.kind # "primitive"
        /\ gltfLast'.kind = "primitive" => gltfPc = "meshes"
        /\ gltfLast'.kind = "buffer" =>
              LET buffer_bytes == BufferBytes(gltfLast'.source, gltfBlob)
              IN  /\ gltfPc = "buffers"
                  /\ gltfMeshes = <<>>
                  /\ gltfLast.kind # "primitive"
                  /\ gltfLast'.index = Len(gltfBufferData)
                  /\ buffer_bytes.kind = "ok" =>
                         /\ gltfRet'.kind = "running"
                         /\ gltfPc' = "buffers"
                  /\ buffer_bytes.kind # "ok" =>
                         /\ gltfRet'.kind \in {"err", "panic"}
                         /\ gltfRet'.model = ModelDefault
                         /\ gltfMeshes' = <<>>
                         /\ gltfPc' = "done"
                  /\ (gltfLast'.source.kind = "Bin" /\ ~gltfBlob.some) =>
                         /\ gltfRet'.kind = "err"
                         /\ gltfRet'.msg = "MissingBlob" ]_vars

\* C17, witness: the second buffer of the list is a Bin buffer and the
\* container has no blob
C17_Witness ==
    /\ gltfRet.kind = "err"
    /\ gltfRet.msg = "MissingBlob"
    /\ gltfLast.kind = "buffer"
    /\ gltfLast.source.kind = "Bin"
    /\ gltfLast.index = 1

\* C18: a primitive without texture gives a mesh with one vertex for each
\* position, whatever the number of its texture coordinates; vertex i has
\* the texture coordinate i when there is one and (0, 0) otherwise.
C18_TexCoords ==
    (gltfLast.kind = "primitive" /\ gltfLast.primitive.texture.kind = "None") =>
        LET p == gltfLast.primitive
            n == IF p.positions.some THEN Len(p.positions.val) ELSE 0
        IN  /\ gltfRet.kind = "running"
            /\ gltfMeshes # <<>>
            /\ LET vs == gltfMeshes[Len(gltfMeshes)].vertices
               IN  /\ Len(vs) = n
                   /\ \A i \in 1..n :
                          /\ vs[i].pos = p.positions.val[i]
                          /\ vs[i].tex_coord =
                                 IF p.tex_coords.some /\ i <= Len(p.tex_coords.val)
                                 THEN p.tex_coords.val[i]
                                 ELSE <<Fin(0), Fin(0)>>

====
